---- MODULE Spec2Model ----
(***************************************************************************)
(* Session coordination engine of sync-video-app.                          *)
(*                                                                         *)
(* src/server.js holds two server programs one after the other:            *)
(*   lines 1-791     the reconnection-tolerant server (heartbeats, grace   *)
(*                   period, periodic sweep, chat-only users);             *)
(*   lines 792-1230  the host-enforcing server (host-only video state,     *)
(*                   significance threshold, immediate removal).           *)
(* The variable `variant` selects which program a behaviour runs; it is    *)
(* chosen in Init and never changes, so every invariant is checked against *)
(* both programs.                                                          *)
(*                                                                         *)
(* Time is Date.now() in milliseconds.  currentTime of a video state is    *)
(* held in tenths of a second (0.5 s = 5, 1.0 s = 10).                     *)
(* User names, file names and chat texts are payload only and are not      *)
(* modelled; a participant is identified by its connection id.             *)
(***************************************************************************)
EXTENDS Integers, Sequences, FiniteSets, TLC

VARIABLES
  variant,           \* "health" (server.js 1-791) or "enforcing" (server.js 792-1230)
  now,               \* Date.now()
  opened,            \* number of connections accepted so far (ids 1..opened)
  closedBefore,      \* history: the connections that had closed when each one opened
  sockets,           \* io.sockets.sockets: ids of the connections that are open
  groups,            \* socket.join: members of each transport group, in joining order
  rooms,             \* const rooms = {}
  userSocketMap,     \* const userSocketMap = {}
  connectionHealth,  \* const connectionHealth = {}
  timers,            \* pending setTimeout callbacks of the disconnect handler
  nextSweep,         \* time at which the setInterval callback runs next
  event,             \* the inbound event (or timer) handled by the last step
  emits,             \* outbound messages delivered by the last step, in order
  peerIdMap,         \* const peerIdMap = {}
  userLeftSeen,      \* history: userLeft deliveries, per recipient and departed id
  chatOnlyIn,        \* history: <<id, roomId>> of the joins made as chat-only
  snapshotAt,        \* history: Date.now() at which each room's syncState was stored
  reconnected        \* history: <<previous id, new id, previous was host, new is
                     \* host>> of reconnections made inside the grace period

vars == <<variant, now, opened, closedBefore, sockets, groups, rooms, userSocketMap,
          connectionHealth, timers, nextSweep, event, emits, peerIdMap,
          userLeftSeen, reconnected, snapshotAt, chatOnlyIn>>

----------------------------------------------------------------------------
(* Bounds of the model *)

MaxSockets == 3
SyncSockets == 2
RegistrySockets == 1
RoomsSockets == 2
MaxIdle == 1
MaxNow == 30000
TickStep == 15000
MaxUsers == 2
MaxSeen == 2

(* Program constants *)

GracePeriod == 30000
SweepInterval == 15000
RecentRoom == 15000
HeartbeatTimeout == 30000
InactiveRetention == 300000
RoomTimeout == 1800000
SyncFreshness == 120000
SignificantDelta == 10

Sockets == 1 .. MaxSockets
NoSocket == 0
\* Object.keys(rooms): integer-like keys come first, then the other keys
RoomOrder == <<"123456", "ROOMA1">>
RoomIds == {RoomOrder[i] : i \in 1 .. Len(RoomOrder)}
AlnumIds == RoomIds
DigitIds == {"123456"}
NoRoom == ""
Undefined == -1
\* videoState payloads, currentTime in tenths of a second: the start
\* position, a move of 0.5 s, the same with play, a move of more than 1 s
\* (1.2 s), and 2.2 s, which is one second after 1.2 s in decimals and more
\* than one second after it in doubles
VideoStates ==
  {[isPlaying |-> FALSE, currentTime |-> 0], [isPlaying |-> FALSE, currentTime |-> 5],
   [isPlaying |-> TRUE, currentTime |-> 5], [isPlaying |-> FALSE, currentTime |-> 12],
   [isPlaying |-> FALSE, currentTime |-> 22]}
\* the roles a client joins in: host, viewer, chat-only viewer
JoinRoles ==
  {[isHost |-> TRUE, isChatOnly |-> FALSE], [isHost |-> FALSE, isChatOnly |-> FALSE],
   [isHost |-> FALSE, isChatOnly |-> TRUE]}
PeerIds == {"peer-a"}
NoPeer == ""

----------------------------------------------------------------------------
(* Helpers *)

Min(a, b) == IF a <= b THEN a ELSE b

Abs(x) == IF x < 0 THEN -x ELSE x

RECURSIVE Pow2(_)
Pow2(n) == IF n = 0 THEN 1 ELSE 2 * Pow2(n - 1)

RECURSIVE Concat(_)
Concat(ss) == IF ss = <<>> THEN <<>> ELSE Head(ss) \o Concat(Tail(ss))

\* users.findIndex(user => user.id === id), 1-based; 0 stands for -1
FindIndex(users, id) ==
  IF \E i \in 1 .. Len(users) : users[i].id = id
  THEN CHOOSE i \in 1 .. Len(users) :
         /\ users[i].id = id
         /\ \A j \in 1 .. i - 1 : users[j].id # id
  ELSE 0

\* delete obj[key]
Without(f, k) == [x \in DOMAIN f \ {k} |-> f[x]]

\* obj[key] = value
With(f, k, v) == (k :> v) @@ f

\* the connections that joined the group roomId, in joining order; a name no
\* connection joined under has no members
Joined(grp, roomId) == IF roomId \in DOMAIN grp THEN grp[roomId] ELSE <<>>

\* io.to(roomId): the open connections that joined the transport group roomId
InGroup(grp, open, roomId) ==
  {s \in open : \E i \in 1 .. Len(Joined(grp, roomId)) : Joined(grp, roomId)[i] = s}

\* socket.join(roomId): the transport keeps the members of a group in the
\* order in which they joined; joining a group again changes nothing
JoinGroup(grp, id, roomId) ==
  IF \E i \in 1 .. Len(grp[roomId]) : grp[roomId][i] = id THEN grp
  ELSE [grp EXCEPT ![roomId] = Append(@, id)]

\* a connection that closes leaves every group it joined
LeaveGroups(grp, id) ==
  [roomId \in DOMAIN grp |-> SelectSeq(grp[roomId], LAMBDA s : s # id)]

\* the open members of a group in joining order, the order in which one
\* emit reaches them
Recipients(grp, open, roomId) ==
  SelectSeq(Joined(grp, roomId), LAMBDA s : s \in open)

\* io.to(roomId).emit(...): one delivery per connection of the group
ToRoom(grp, open, roomId, m) ==
  LET order == Recipients(grp, open, roomId)
  IN [i \in 1 .. Len(order) |-> [to |-> order[i]] @@ m]

\* socket.to(roomId).emit(...): the group without the sender
ToRoomExcept(grp, open, roomId, sender, m) ==
  LET order == SelectSeq(Recipients(grp, open, roomId), LAMBDA s : s # sender)
  IN [i \in 1 .. Len(order) |-> [to |-> order[i]] @@ m]

\* a unicast that is never delivered
ToSocket_Nobody(open, id, m) == <<>>

\* io.to(socketId).emit(...) / socket.emit(...): delivered if that connection is open
ToSocket(open, id, m) == IF id \in open THEN <<[to |-> id] @@ m>> ELSE <<>>

\* users.forEach(u => io.to(u.id).emit(...)) over an already filtered list
ToUsers(open, users, m) ==
  Concat([i \in 1 .. Len(users) |-> ToSocket(open, users[i].id, m)])

HostOf(roomId) ==
  IF variant = "enforcing" THEN rooms[roomId].hostId ELSE rooms[roomId].host

\* the stored playback snapshot: a list that is empty while syncState is null
Snapshot(roomId) ==
  IF variant = "enforcing" THEN <<rooms[roomId].videoState>>
  ELSE rooms[roomId].syncState

IsChatOnly(user) == variant = "health" /\ user.isChatOnly

----------------------------------------------------------------------------
(* Initial state: the process has just started, nothing is connected *)

Init ==
  /\ variant \in {"health", "enforcing"}
  /\ now = 0
  /\ opened = 0
  /\ closedBefore = [s \in Sockets |-> {}]
  /\ sockets = {}
  /\ groups = [roomId \in RoomIds |-> <<>>]
  /\ rooms = << >>
  /\ userSocketMap = [s \in Sockets |-> NoRoom]
  /\ connectionHealth = << >>
  /\ timers = <<>>
  /\ nextSweep = SweepInterval
  /\ event = [name |-> "start"]
  /\ emits = <<>>
  /\ peerIdMap = << >>
  /\ userLeftSeen = [p \in Sockets \X Sockets |-> 0]
  /\ reconnected = {}
  /\ snapshotAt = [roomId \in RoomIds |-> Undefined]
  /\ chatOnlyIn = {}

----------------------------------------------------------------------------
(* io.on('connection') *)

\* connections that are open and have not joined any room yet
Idle ==
  {s \in sockets : \A roomId \in RoomIds : s \notin InGroup(groups, sockets, roomId)}

Connection(limit) ==
  /\ opened < limit
  /\ Cardinality(Idle) < MaxIdle
  /\ LET id == opened + 1 IN
       /\ opened' = id
       /\ closedBefore' = [closedBefore EXCEPT ![id] = (1 .. opened) \ sockets]
       /\ sockets' = sockets \cup {id}
       /\ connectionHealth' =
            IF variant = "health"
            THEN With(connectionHealth, id,
                      [lastHeartbeat |-> now, isConnected |-> TRUE,
                       disconnectedAt |-> Undefined])
            ELSE connectionHealth
       /\ event' = [name |-> "connection", id |-> id]
  /\ emits' = <<>>
  /\ UNCHANGED <<variant, now, groups, rooms, userSocketMap, timers,
                 nextSweep, peerIdMap, userLeftSeen, reconnected, snapshotAt,
                 chatOnlyIn>>

----------------------------------------------------------------------------
(* Reconnection-tolerant server: socket.on('joinRoom') *)

NewRoom(id, isHost) ==
  [users |-> <<>>,
   host |-> IF isHost THEN id ELSE NoSocket,
   streaming |-> FALSE,
   fileName |-> "null",
   fileType |-> "null",
   lastActive |-> now,
   syncState |-> <<>>]

NewUser(id, isHost, isChatOnly) ==
  [id |-> id, isHost |-> isHost, isChatOnly |-> isChatOnly,
   active |-> TRUE, disconnectedAt |-> Undefined]

UpsertUser(users, rec) ==
  LET existingUserIndex == FindIndex(users, rec.id)
  IN IF existingUserIndex # 0
     THEN [users EXCEPT ![existingUserIndex] = rec]
     ELSE Append(users, rec)

UpdateHost(host, id, isHost) == IF isHost THEN id ELSE host

FreshSync(syncState, t) ==
  /\ syncState # <<>>
  /\ t - syncState[1].timestamp < SyncFreshness

JoinRoom(id, roomId, isHost, isChatOnly) ==
  /\ variant = "health"
  /\ id \in sockets
  /\ LET base == IF roomId \in DOMAIN rooms THEN rooms[roomId]
                 ELSE NewRoom(id, isHost)
         users1 == UpsertUser(base.users, NewUser(id, isHost, isChatOnly))
         room1 == [base EXCEPT !.users = users1,
                               !.host = UpdateHost(@, id, isHost),
                               !.lastActive = now]
         groups1 == JoinGroup(groups, id, roomId)
     IN
       /\ rooms' = With(rooms, roomId, room1)
       /\ userSocketMap' = [userSocketMap EXCEPT ![id] = roomId]
       /\ groups' = groups1
       /\ emits' =
            ToRoom(groups1, sockets, roomId,
                   [ev |-> "userJoined", user |-> id, users |-> users1])
            \o ToSocket(sockets, id,
                   [ev |-> "streaming-status", isStreaming |-> room1.streaming,
                    fileName |-> room1.fileName, fileType |-> room1.fileType])
            \o (IF ~isHost /\ ~isChatOnly /\ FreshSync(room1.syncState, now)
                THEN ToSocket(sockets, id,
                        [ev |-> "fallback-sync-state",
                         state |-> room1.syncState[1]])
                ELSE <<>>)
  /\ event' = [name |-> "joinRoom", id |-> id, roomId |-> roomId,
               isHost |-> isHost, isChatOnly |-> isChatOnly]
  /\ chatOnlyIn' = IF isChatOnly THEN chatOnlyIn \cup {<<id, roomId>>}
                   ELSE chatOnlyIn \ {<<id, roomId>>}
  /\ UNCHANGED <<variant, now, opened, closedBefore, sockets,
                 connectionHealth, timers, nextSweep, peerIdMap, userLeftSeen,
                 reconnected, snapshotAt>>


----------------------------------------------------------------------------
(* Reconnection-tolerant server: socket.on('videoStateChange') *)

\* the filter without the exclusion of the sender
RegularViewers_WithSender(users, id) ==
  SelectSeq(users, LAMBDA user : ~user.isChatOnly)

\* users.filter(user => user.id !== socket.id && !user.isChatOnly)
RegularViewers(users, id) ==
  SelectSeq(users, LAMBDA user : user.id # id /\ ~user.isChatOnly)

VideoStateChange(id, roomId, isPlaying, currentTime) ==
  /\ variant = "health"
  /\ id \in sockets
  /\ LET update == [ev |-> "videoStateUpdate", isPlaying |-> isPlaying,
                    currentTime |-> currentTime, timestamp |-> now]
     IN IF roomId \in DOMAIN rooms
        THEN /\ rooms' = [rooms EXCEPT ![roomId].syncState =
                            <<[isPlaying |-> isPlaying, currentTime |-> currentTime,
                               timestamp |-> now, hostId |-> id]>>]
             /\ snapshotAt' = [snapshotAt EXCEPT ![roomId] = now]
             /\ emits' = ToUsers(sockets, RegularViewers(rooms[roomId].users, id), update)
        ELSE /\ rooms' = rooms
             /\ snapshotAt' = snapshotAt
             /\ emits' = ToRoomExcept(groups, sockets, roomId, id, update)
  /\ event' = [name |-> "videoStateChange", id |-> id, roomId |-> roomId,
               isPlaying |-> isPlaying, currentTime |-> currentTime]
  /\ UNCHANGED <<variant, now, opened, closedBefore, sockets, groups,
                 userSocketMap, connectionHealth, timers, nextSweep,
                 peerIdMap, userLeftSeen, reconnected, chatOnlyIn>>

----------------------------------------------------------------------------
(* Reconnection-tolerant server: socket.on('disconnect') *)

Disconnect(id) ==
  /\ variant = "health"
  /\ id \in sockets
  /\ LET roomId == userSocketMap[id]
         open == sockets \ {id}
         left == LeaveGroups(groups, id)
     IN
       /\ sockets' = open
       /\ groups' = left
       /\ IF roomId # NoRoom /\ roomId \in DOMAIN rooms
          THEN LET idx == FindIndex(rooms[roomId].users, id)
                   wasHost == IF idx # 0 THEN rooms[roomId].users[idx].isHost ELSE FALSE
                   wasChatOnly == IF idx # 0 THEN rooms[roomId].users[idx].isChatOnly
                                  ELSE FALSE
               IN
                 /\ connectionHealth' =
                      IF id \in DOMAIN connectionHealth
                      THEN [connectionHealth EXCEPT ![id].isConnected = FALSE,
                                                    ![id].disconnectedAt = now]
                      ELSE connectionHealth
                 /\ rooms' =
                      IF idx # 0
                      THEN [rooms EXCEPT ![roomId].users[idx].active = FALSE,
                                         ![roomId].users[idx].disconnectedAt = now]
                      ELSE rooms
                 /\ timers' =
                      IF idx # 0
                      THEN Append(timers, [roomId |-> roomId, id |-> id,
                                           wasHost |-> wasHost,
                                           due |-> now + GracePeriod])
                      ELSE timers
                 /\ emits' = ToRoom(left, open, roomId,
                                    [ev |-> "userDisconnected", userId |-> id,
                                     isHost |-> wasHost, isChatOnly |-> wasChatOnly,
                                     timestamp |-> now])
          ELSE /\ emits' = <<>>
               /\ UNCHANGED <<rooms, connectionHealth, timers>>
  /\ event' = [name |-> "disconnect", id |-> id]
  /\ UNCHANGED <<variant, now, opened, closedBefore, userSocketMap, nextSweep,
                 peerIdMap, userLeftSeen, reconnected, snapshotAt,
                 chatOnlyIn>>

\* history of userLeft deliveries: one more for every recipient of msgs
CountUserLeft(seen, msgs, departed) ==
  [p \in DOMAIN seen |->
     IF p[2] = departed
     THEN Min(MaxSeen,
              seen[p] + Cardinality({i \in 1 .. Len(msgs) :
                                       msgs[i].ev = "userLeft" /\ msgs[i].to = p[1]}))
     ELSE seen[p]]

\* the setTimeout callback scheduled by the disconnect handler
Timeout ==
  /\ variant = "health"
  /\ timers # <<>>
  /\ Head(timers).due = now
  /\ LET t == Head(timers)
         roomId == t.roomId
         idx == IF roomId \in DOMAIN rooms THEN FindIndex(rooms[roomId].users, t.id)
                ELSE 0
         remove == idx # 0 /\ rooms[roomId].users[idx].active = FALSE
         remaining == IF remove
                      THEN SelectSeq(rooms[roomId].users, LAMBDA u : u.id # t.id)
                      ELSE <<>>
         hostLeft == remove /\ t.wasHost /\ rooms[roomId].host = t.id
     IN
       /\ timers' = Tail(timers)
       /\ connectionHealth' = Without(connectionHealth, t.id)
       /\ IF ~remove
          THEN /\ rooms' = rooms
               /\ emits' = <<>>
          ELSE IF Len(remaining) = 0
          THEN /\ rooms' = Without(rooms, roomId)
               /\ emits' = <<>>
          ELSE /\ rooms' = [rooms EXCEPT
                              ![roomId].users = remaining,
                              ![roomId].host = IF hostLeft THEN NoSocket ELSE @,
                              ![roomId].streaming = IF hostLeft THEN FALSE ELSE @]
               /\ emits' =
                    (IF hostLeft
                     THEN ToUsers(sockets,
                                  SelectSeq(remaining, LAMBDA u : ~u.isChatOnly),
                                  [ev |-> "streaming-status", isStreaming |-> FALSE,
                                   fileName |-> "null", fileType |-> "null"])
                     ELSE <<>>)
                    \o ToRoom(groups, sockets, roomId,
                              [ev |-> "userLeft", userId |-> t.id,
                               users |-> SelectSeq(remaining, LAMBDA u : u.active)])
       /\ event' = [name |-> "timeout", id |-> t.id, roomId |-> roomId]
  /\ userLeftSeen' = CountUserLeft(userLeftSeen, emits', Head(timers).id)
  /\ UNCHANGED <<variant, now, opened, closedBefore, sockets, groups,
                 userSocketMap, nextSweep, peerIdMap, reconnected, snapshotAt,
                 chatOnlyIn>>

----------------------------------------------------------------------------
(* Reconnection-tolerant server: the setInterval callback (periodic sweep) *)

\* the per-user check without the skip of users already marked inactive
AppearsLost_Again(user, t) ==
  /\ \/ user.id \notin DOMAIN connectionHealth
     \/ t - connectionHealth[user.id].lastHeartbeat > HeartbeatTimeout
  /\ user.id \notin sockets

\* the per-user check without the look at io.sockets.sockets
AppearsLost_Unconfirmed(user, t) ==
  /\ user.active
  /\ \/ user.id \notin DOMAIN connectionHealth
     \/ t - connectionHealth[user.id].lastHeartbeat > HeartbeatTimeout

\* the per-user check: no health data or a heartbeat that is too old, and
\* the socket is not connected
AppearsLost(user, t) ==
  /\ user.active
  /\ \/ user.id \notin DOMAIN connectionHealth
     \/ t - connectionHealth[user.id].lastHeartbeat > HeartbeatTimeout
  /\ user.id \notin sockets

MarkLost(users, t) ==
  [i \in 1 .. Len(users) |->
     IF AppearsLost(users[i], t)
     THEN [users[i] EXCEPT !.active = FALSE, !.disconnectedAt = t]
     ELSE users[i]]

LostNotices(roomId, users, t) ==
  Concat([i \in 1 .. Len(users) |->
     IF AppearsLost(users[i], t)
     THEN ToRoom(groups, sockets, roomId,
                 [ev |-> "userConnectionLost", userId |-> users[i].id,
                  isHost |-> users[i].isHost, isChatOnly |-> users[i].isChatOnly])
          \o (IF users[i].isHost
              THEN ToUsers(sockets, SelectSeq(users, LAMBDA u : ~u.isChatOnly),
                           [ev |-> "hostConnectionLost", timestamp |-> t])
              ELSE <<>>)
     ELSE <<>>])

\* room.users.filter(...): drop users inactive for more than 5 minutes
DropExpired(users, t) ==
  SelectSeq(users, LAMBDA user :
                     ~(~user.active /\ t - user.disconnectedAt > InactiveRetention))

SkipRecent(room, t) == t - room.lastActive < RecentRoom

SweptUsers(room, t) == DropExpired(MarkLost(room.users, t), t)

\* the deletion test without its 30 minutes half
RoomExpired_WhenEmpty(room, users, t) == Len(users) = 0

\* the deletion test without its users.length === 0 half
RoomExpired_ByAgeOnly(room, users, t) == t - room.lastActive > RoomTimeout

RoomExpired(room, users, t) == Len(users) = 0 \/ t - room.lastActive > RoomTimeout

SweepRooms(t) ==
  LET kept == {roomId \in DOMAIN rooms :
                 \/ SkipRecent(rooms[roomId], t)
                 \/ ~RoomExpired(rooms[roomId], SweptUsers(rooms[roomId], t), t)}
  IN [roomId \in kept |->
        IF SkipRecent(rooms[roomId], t) THEN rooms[roomId]
        ELSE [rooms[roomId] EXCEPT !.users = SweptUsers(rooms[roomId], t)]]

SweepNotices(t) ==
  Concat([i \in 1 .. Len(RoomOrder) |->
     IF RoomOrder[i] \in DOMAIN rooms /\ ~SkipRecent(rooms[RoomOrder[i]], t)
     THEN LostNotices(RoomOrder[i], rooms[RoomOrder[i]].users, t)
     ELSE <<>>])

\* the rooms whose list the sweep leaves without any participant
Emptied(t) ==
  {roomId \in DOMAIN rooms :
     ~SkipRecent(rooms[roomId], t) /\ Len(SweptUsers(rooms[roomId], t)) = 0}

\* the rooms the sweep finds untouched for more than 30 minutes
Expired(t) == {roomId \in DOMAIN rooms : t - rooms[roomId].lastActive > RoomTimeout}

\* stale connection health data: disconnected for more than 5 minutes
PurgeHealth(t) ==
  LET stale == {id \in DOMAIN connectionHealth :
                  /\ ~connectionHealth[id].isConnected
                  /\ t - connectionHealth[id].disconnectedAt > InactiveRetention}
  IN [id \in DOMAIN connectionHealth \ stale |-> connectionHealth[id]]

Sweep ==
  /\ variant = "health"
  /\ nextSweep = now
  /\ rooms' = SweepRooms(now)
  /\ emits' = SweepNotices(now)
  /\ connectionHealth' = PurgeHealth(now)
  /\ nextSweep' = now + SweepInterval
  /\ event' = [name |-> "sweep", emptied |-> Emptied(now), expired |-> Expired(now)]
  /\ UNCHANGED <<variant, now, opened, closedBefore, sockets, groups,
                 userSocketMap, timers, peerIdMap, userLeftSeen, reconnected,
                 snapshotAt, chatOnlyIn>>

----------------------------------------------------------------------------
(* Passage of time: the clock moves to the next instant at which something  *)
(* is due, at most TickStep ahead; a callback that is due runs before the   *)
(* clock moves on.                                                          *)

NextDue ==
  LET sweepDue == IF variant = "health" THEN nextSweep ELSE now + TickStep
      timerDue == IF timers # <<>> THEN Head(timers).due ELSE now + TickStep
  IN Min(now + TickStep, Min(sweepDue, timerDue))

AdvanceTo(limit) ==
  /\ NextDue > now
  /\ NextDue <= limit
  /\ now' = NextDue
  /\ event' = [name |-> "advance"]
  /\ emits' = <<>>
  /\ UNCHANGED <<variant, opened, closedBefore, sockets, groups, rooms,
                 userSocketMap, connectionHealth, timers, nextSweep,
                 peerIdMap, userLeftSeen, reconnected, snapshotAt,
                 chatOnlyIn>>

Advance == AdvanceTo(MaxNow)

----------------------------------------------------------------------------
(* Reconnection-tolerant server: socket.on('peer-id') *)

\* a reconnection inside the grace period: the announcing connection has
\* joined the room in which the removal of its previous connection is pending
InGrace(id, previousSocketId) ==
  {<<previousSocketId, id, timers[i].wasHost,
     rooms[timers[i].roomId].users[FindIndex(rooms[timers[i].roomId].users, id)].isHost>> :
   i \in
     {j \in 1 .. Len(timers) :
        /\ timers[j].id = previousSocketId
        /\ timers[j].roomId \in DOMAIN rooms
        /\ FindIndex(rooms[timers[j].roomId].users, previousSocketId) # 0
        /\ FindIndex(rooms[timers[j].roomId].users, id) # 0}}

\* peerIdMap is held as the list of its entries in the order of
\* Object.keys(peerIdMap), the order in which the keys were first stored

\* Object.keys(map).find(key => map[key] === peerId); NoSocket stands for
\* undefined
KeyOfPeer(map, peerId) ==
  LET found == SelectSeq(map, LAMBDA entry : entry.value = peerId)
  IN IF found = <<>> THEN NoSocket ELSE found[1].key

\* map[id]; NoPeer stands for undefined
PeerOf(map, id) ==
  LET found == SelectSeq(map, LAMBDA entry : entry.key = id)
  IN IF found = <<>> THEN NoPeer ELSE found[1].value

\* map[id] = peerId: an existing key keeps its place, a new key comes last
StorePeer(map, id, peerId) ==
  IF PeerOf(map, id) # NoPeer
  THEN [i \in 1 .. Len(map) |->
          IF map[i].key = id THEN [key |-> id, value |-> peerId] ELSE map[i]]
  ELSE Append(map, [key |-> id, value |-> peerId])

RegisterPeer(map, id, peerId, previousSocketId) ==
  LET stored == StorePeer(map, id, peerId)
  IN IF previousSocketId # NoSocket /\ PeerOf(stored, previousSocketId) # NoPeer
     THEN SelectSeq(stored, LAMBDA entry : entry.key # previousSocketId)
     ELSE stored

PeerId(id, roomId, peerId, isHost, previousSocketId) ==
  /\ variant = "health"
  /\ id \in sockets
  /\ peerIdMap' = RegisterPeer(peerIdMap, id, peerId, previousSocketId)
  /\ emits' = ToRoom(groups, sockets, roomId,
                     [ev |-> "peer-id", socketId |-> id, peerId |-> peerId,
                      isHost |-> isHost,
                      isReconnection |-> previousSocketId # NoSocket])
  /\ reconnected' = reconnected \cup InGrace(id, previousSocketId)
  /\ event' = [name |-> "peer-id", id |-> id, roomId |-> roomId,
               peerId |-> peerId, previousSocketId |-> previousSocketId]
  /\ UNCHANGED <<variant, now, opened, closedBefore, sockets, groups, rooms,
                 userSocketMap, connectionHealth, timers, nextSweep,
                 userLeftSeen, snapshotAt, chatOnlyIn>>

----------------------------------------------------------------------------
(* Reconnection-tolerant server: socket.on('heartbeat') *)

\* the room statistics of the heartbeat-ack; all zero when the room is missing
RoomStats(id, roomId) ==
  IF roomId \in DOMAIN rooms
  THEN LET users == rooms[roomId].users
       IN [viewerCount |->
             Len(SelectSeq(users, LAMBDA u : ~u.isHost /\ ~u.isChatOnly)),
           chatOnlyCount |-> Len(SelectSeq(users, LAMBDA u : u.isChatOnly)),
           hostConnected |->
             \E i \in 1 .. Len(users) : users[i].isHost /\ users[i].id # id]
  ELSE [viewerCount |-> 0, chatOnlyCount |-> 0, hostConnected |-> FALSE]

Heartbeat(id, roomId) ==
  /\ variant = "health"
  /\ id \in sockets
  /\ connectionHealth' =
       IF id \in DOMAIN connectionHealth
       THEN [connectionHealth EXCEPT ![id].lastHeartbeat = now]
       ELSE connectionHealth
  /\ rooms' =
       IF roomId \in DOMAIN rooms
       THEN [rooms EXCEPT ![roomId].lastActive = now]
       ELSE rooms
  /\ emits' = ToSocket(sockets, id,
                       [ev |-> "heartbeat-ack", timestamp |-> now]
                       @@ RoomStats(id, roomId))
  /\ event' = [name |-> "heartbeat", id |-> id, roomId |-> roomId]
  /\ UNCHANGED <<variant, now, opened, closedBefore, sockets, groups,
                 userSocketMap, timers, nextSweep, peerIdMap, userLeftSeen,
                 reconnected, snapshotAt, chatOnlyIn>>

----------------------------------------------------------------------------
(* Reconnection-tolerant server: socket.on('videoSeekOperation') *)

\* isPlaying !== undefined ? isPlaying : true; an absent field is <<>>
OrTrue(isPlaying) == IF isPlaying = <<>> THEN TRUE ELSE isPlaying[1]

\* sourceTimestamp ? serverTimestamp - sourceTimestamp : 0
Latency(serverTimestamp, sourceTimestamp) ==
  IF sourceTimestamp # 0 THEN serverTimestamp - sourceTimestamp ELSE 0

VideoSeekOperation(id, roomId, seekTime, isPlaying, sourceTimestamp) ==
  /\ variant = "health"
  /\ id \in sockets
  /\ LET seek == [ev |-> "videoSeekOperation", seekTime |-> seekTime,
                  isPlaying |-> OrTrue(isPlaying),
                  sourceTimestamp |-> sourceTimestamp, serverTimestamp |-> now,
                  processingLatency |-> Latency(now, sourceTimestamp),
                  hostId |-> id]
     IN IF roomId \in DOMAIN rooms
        THEN /\ rooms' = [rooms EXCEPT ![roomId].syncState =
                            <<[currentTime |-> seekTime,
                               isPlaying |-> OrTrue(isPlaying),
                               timestamp |-> now, hostId |-> id,
                               seekOperation |-> TRUE]>>]
             /\ snapshotAt' = [snapshotAt EXCEPT ![roomId] = now]
             /\ emits' = ToUsers(sockets, RegularViewers(rooms[roomId].users, id), seek)
        ELSE /\ rooms' = rooms
             /\ snapshotAt' = snapshotAt
             /\ emits' = ToRoomExcept(groups, sockets, roomId, id, seek)
  /\ event' = [name |-> "videoSeekOperation", id |-> id, roomId |-> roomId]
  /\ UNCHANGED <<variant, now, opened, closedBefore, sockets, groups,
                 userSocketMap, connectionHealth, timers, nextSweep,
                 peerIdMap, userLeftSeen, reconnected, chatOnlyIn>>

----------------------------------------------------------------------------
(* Reconnection-tolerant server: socket.on('fallback-sync-state') *)

\* timestamp || Date.now(); an absent (or zero) timestamp is 0
StampOrNow(timestamp) == IF timestamp # 0 THEN timestamp ELSE now

FallbackSyncState(id, roomId, currentTime, isPlaying, timestamp, targetSocketId) ==
  /\ variant = "health"
  /\ id \in sockets
  /\ LET state == [ev |-> "fallback-sync-state", currentTime |-> currentTime,
                   isPlaying |-> isPlaying, timestamp |-> StampOrNow(timestamp),
                   hostId |-> id]
         known == roomId \in DOMAIN rooms
         targetIndex == IF known THEN FindIndex(rooms[roomId].users, targetSocketId)
                        ELSE 0
     IN
       /\ rooms' =
            IF known
            THEN [rooms EXCEPT ![roomId].syncState =
                    <<[currentTime |-> currentTime, isPlaying |-> isPlaying,
                       timestamp |-> StampOrNow(timestamp), hostId |-> id]>>]
            ELSE rooms
       /\ snapshotAt' =
            IF known THEN [snapshotAt EXCEPT ![roomId] = now] ELSE snapshotAt
       /\ emits' =
            IF targetSocketId # NoSocket
            THEN IF targetIndex # 0 /\ ~rooms[roomId].users[targetIndex].isChatOnly
                 THEN ToSocket(sockets, targetSocketId, state)
                 ELSE <<>>
            ELSE IF known
                 THEN ToUsers(sockets, RegularViewers(rooms[roomId].users, id), state)
                 ELSE ToRoomExcept(groups, sockets, roomId, id, state)
  /\ event' = [name |-> "fallback-sync-state", id |-> id, roomId |-> roomId,
               timestamp |-> timestamp, targetSocketId |-> targetSocketId]
  /\ UNCHANGED <<variant, now, opened, closedBefore, sockets, groups,
                 userSocketMap, connectionHealth, timers, nextSweep,
                 peerIdMap, userLeftSeen, reconnected, chatOnlyIn>>

----------------------------------------------------------------------------
(* Reconnection-tolerant server: socket.on('webrtc-connection-failed') *)

WebrtcConnectionFailed(id, roomId, peerId) ==
  /\ variant = "health"
  /\ id \in sockets
  /\ LET targetSocketId == KeyOfPeer(peerIdMap, peerId)
         targetIndex == IF roomId \in DOMAIN rooms
                        THEN FindIndex(rooms[roomId].users, targetSocketId)
                        ELSE 0
     IN emits' =
          IF targetSocketId # NoSocket
          THEN IF targetIndex # 0 /\ ~rooms[roomId].users[targetIndex].isChatOnly
               THEN ToSocket(sockets, targetSocketId,
                             [ev |-> "webrtc-reconnect-requested",
                              fromSocketId |-> id,
                              fromPeerId |-> PeerOf(peerIdMap, id)])
               ELSE IF targetIndex # 0 /\ rooms[roomId].users[targetIndex].isChatOnly
               THEN ToSocket(sockets, id,
                             [ev |-> "webrtc-target-unreachable", peerId |-> peerId,
                              reason |-> "chat-only"])
               ELSE <<>>
          ELSE ToSocket(sockets, id,
                        [ev |-> "webrtc-target-unreachable", peerId |-> peerId,
                         reason |-> "not found"])
  /\ event' = [name |-> "webrtc-connection-failed", id |-> id, roomId |-> roomId,
               peerId |-> peerId]
  /\ UNCHANGED <<variant, now, opened, closedBefore, sockets, groups, rooms,
                 userSocketMap, connectionHealth, timers, nextSweep, peerIdMap,
                 userLeftSeen, reconnected, snapshotAt, chatOnlyIn>>

----------------------------------------------------------------------------
(* Reconnection-tolerant server: socket.on('request-reconnection') *)

\* the test that looks at the room only
HasHost_RoomOnly(roomId) == roomId \in DOMAIN rooms

\* rooms[roomId] && rooms[roomId].host
HasHost(roomId) == roomId \in DOMAIN rooms /\ rooms[roomId].host # NoSocket

RequestReconnection(id, roomId, viewerPeerId) ==
  /\ variant = "health"
  /\ id \in sockets
  /\ emits' =
       IF HasHost(roomId)
       THEN ToSocket(sockets, rooms[roomId].host,
                     [ev |-> "viewer-reconnection-request", viewerSocketId |-> id,
                      viewerPeerId |-> viewerPeerId])
       ELSE ToSocket(sockets, id, [ev |-> "reconnection-failed"])
  /\ event' = [name |-> "request-reconnection", id |-> id, roomId |-> roomId]
  /\ UNCHANGED <<variant, now, opened, closedBefore, sockets, groups, rooms,
                 userSocketMap, connectionHealth, timers, nextSweep, peerIdMap,
                 userLeftSeen, reconnected, snapshotAt, chatOnlyIn>>

----------------------------------------------------------------------------
(* Reconnection-tolerant server: socket.on('streaming-status-update') *)

StreamingStatusUpdate(id, roomId, streaming, fileName, fileType) ==
  /\ variant = "health"
  /\ id \in sockets
  /\ LET status == [ev |-> "streaming-status", isStreaming |-> streaming,
                    fileName |-> fileName, fileType |-> fileType]
     IN IF roomId \in DOMAIN rooms
        THEN /\ rooms' = [rooms EXCEPT
                            ![roomId].streaming = streaming,
                            ![roomId].fileName = fileName,
                            ![roomId].fileType = fileType,
                            ![roomId].syncState = IF ~streaming THEN <<>> ELSE @]
             /\ emits' = ToUsers(sockets,
                                 SelectSeq(rooms[roomId].users,
                                           LAMBDA user : ~user.isChatOnly),
                                 status)
        ELSE /\ rooms' = rooms
             /\ emits' = ToRoomExcept(groups, sockets, roomId, id, status)
  /\ event' = [name |-> "streaming-status-update", id |-> id, roomId |-> roomId,
               streaming |-> streaming]
  /\ UNCHANGED <<variant, now, opened, closedBefore, sockets, groups,
                 userSocketMap, connectionHealth, timers, nextSweep,
                 peerIdMap, userLeftSeen, reconnected, snapshotAt,
                 chatOnlyIn>>

----------------------------------------------------------------------------
(* Reconnection-tolerant server: socket.on('streamingAboutToStart') *)

\* the handler registering the room it does not find
StreamingAboutToStart_Registering(id, roomId) ==
  /\ variant = "health"
  /\ id \in sockets
  /\ rooms' = IF roomId \in DOMAIN rooms THEN rooms
              ELSE rooms @@ (roomId :> NewRoom(id, FALSE))
  /\ emits' = ToRoomExcept(groups, sockets, roomId, id, [ev |-> "streamingAboutToStart"])
  /\ event' = [name |-> "streamingAboutToStart", id |-> id, roomId |-> roomId]
  /\ UNCHANGED <<variant, now, opened, closedBefore, sockets, groups,
                 userSocketMap, connectionHealth, timers, nextSweep,
                 peerIdMap, userLeftSeen, reconnected, snapshotAt, chatOnlyIn>>

StreamingAboutToStart(id, roomId) ==
  /\ variant = "health"
  /\ id \in sockets
  /\ emits' =
       IF roomId \in DOMAIN rooms
       THEN ToUsers(sockets, RegularViewers(rooms[roomId].users, id),
                    [ev |-> "streamingAboutToStart"])
       ELSE ToRoomExcept(groups, sockets, roomId, id, [ev |-> "streamingAboutToStart"])
  /\ event' = [name |-> "streamingAboutToStart", id |-> id, roomId |-> roomId]
  /\ UNCHANGED <<variant, now, opened, closedBefore, sockets, groups, rooms,
                 userSocketMap, connectionHealth, timers, nextSweep,
                 peerIdMap, userLeftSeen, reconnected, snapshotAt,
                 chatOnlyIn>>

----------------------------------------------------------------------------
(* Reconnection-tolerant server: create-room (socket event and HTTP POST) *)

\* the loop without its collision check
UnusedRoomIds_NoCheck(space) == space

\* the values with which  do { roomId = random } while (rooms[roomId])  can end
UnusedRoomIds(space) == {roomId \in space : roomId \notin DOMAIN rooms}

CreateRoom(id, withCallback) ==
  /\ variant = "health"
  /\ id \in sockets
  /\ \E roomId \in UnusedRoomIds(AlnumIds) :
       /\ emits' = ToSocket(sockets, id,
                            [ev |-> IF withCallback THEN "create-room:callback"
                                    ELSE "roomCreated",
                             roomId |-> roomId])
       /\ event' = [name |-> "create-room", id |-> id, roomId |-> roomId]
  /\ UNCHANGED <<variant, now, opened, closedBefore, sockets, groups, rooms,
                 userSocketMap, connectionHealth, timers, nextSweep,
                 peerIdMap, userLeftSeen, reconnected, snapshotAt,
                 chatOnlyIn>>

PostCreateRoom ==
  /\ variant = "health"
  /\ \E roomId \in UnusedRoomIds(DigitIds) :
       /\ emits' = <<[to |-> NoSocket, ev |-> "POST /create-room:response",
                      roomId |-> roomId]>>
       /\ event' = [name |-> "POST /create-room", id |-> NoSocket, roomId |-> roomId]
  /\ UNCHANGED <<variant, now, opened, closedBefore, sockets, groups, rooms,
                 userSocketMap, connectionHealth, timers, nextSweep,
                 peerIdMap, userLeftSeen, reconnected, snapshotAt,
                 chatOnlyIn>>

----------------------------------------------------------------------------
(* Host-enforcing server: socket.on('joinRoom') *)

\* a video URL is the list of its parts: 'http://', 'https://' or '/' when it
\* starts with one of them, then the rest; the empty list is null (the empty
\* string passes the same tests, !url and if (rooms[roomId].videoUrl))
NoUrl == <<>>

NoVideo == ""

NewRoomEnforcing(id, isHost) ==
  [videoState |-> [isPlaying |-> FALSE, currentTime |-> 0, lastUpdate |-> now],
   users |-> <<>>,
   videoUrl |-> NoUrl,
   hostId |-> IF isHost THEN id ELSE NoSocket,
   uploadComplete |-> FALSE]

\* { complete: rooms[roomId].uploadComplete, videoId: rooms[roomId].videoId }:
\* a room made by joinRoom has no videoId, and the message then has none
UploadStatus(room) ==
  IF "videoId" \in DOMAIN room
  THEN [ev |-> "uploadStatus", complete |-> room.uploadComplete,
        videoId |-> room.videoId]
  ELSE [ev |-> "uploadStatus", complete |-> room.uploadComplete]

\* if (rooms[roomId].videoUrl) { socket.emit('videoUrlUpdate', ...);
\*                               socket.emit('uploadStatus', ...) }
VideoNotices(open, id, room) ==
  IF room.videoUrl # NoUrl
  THEN ToSocket(open, id, [ev |-> "videoUrlUpdate", videoUrl |-> room.videoUrl])
       \o ToSocket(open, id, UploadStatus(room))
  ELSE <<>>

\* else if (isHost && !rooms[roomId].hostId) rooms[roomId].hostId = socket.id
ClaimHost(hostId, id, isHost) ==
  IF isHost /\ hostId = NoSocket THEN id ELSE hostId

JoinRoomEnforcing(id, roomId, isHost) ==
  /\ variant = "enforcing"
  /\ id \in sockets
  /\ LET base == IF roomId \in DOMAIN rooms
                 THEN [rooms[roomId] EXCEPT !.hostId = ClaimHost(@, id, isHost)]
                 ELSE NewRoomEnforcing(id, isHost)
         asHost == isHost \/ id = base.hostId
         users1 == Append(base.users, [id |-> id, isHost |-> asHost])
         room1 == [base EXCEPT !.users = users1]
         groups1 == JoinGroup(groups, id, roomId)
     IN
       /\ Len(base.users) < MaxUsers
       /\ rooms' = With(rooms, roomId, room1)
       /\ groups' = groups1
       /\ emits' =
            ToRoom(groups1, sockets, roomId,
                   [ev |-> "userJoined", user |-> id, isHost |-> asHost,
                    users |-> users1])
            \o ToSocket(sockets, id,
                   [ev |-> "videoStateUpdate",
                    isPlaying |-> room1.videoState.isPlaying,
                    currentTime |-> room1.videoState.currentTime,
                    lastUpdate |-> room1.videoState.lastUpdate])
            \o VideoNotices(sockets, id, room1)
  /\ event' = [name |-> "joinRoom", id |-> id, roomId |-> roomId,
               isHost |-> isHost, isChatOnly |-> FALSE]
  /\ UNCHANGED <<variant, now, opened, closedBefore, sockets, userSocketMap,
                 connectionHealth, timers, nextSweep, peerIdMap, userLeftSeen,
                 reconnected, snapshotAt, chatOnlyIn>>

----------------------------------------------------------------------------
(* Host-enforcing server: app.post('/create-room') *)

VideoIds == {"video-a"}

\* rooms[roomId] = {videoState, users: [], videoUrl: null, hostId: null,
\* videoId, uploadComplete: false}
PendingRoom(videoId) ==
  [videoState |-> [isPlaying |-> FALSE, currentTime |-> 0, lastUpdate |-> now],
   users |-> <<>>,
   videoUrl |-> NoUrl,
   hostId |-> NoSocket,
   videoId |-> videoId,
   uploadComplete |-> FALSE]

\* the room id is built from the clock and Math.random() and is stored
\* without a look at the registry: a room of that id is replaced
PostCreateRoomEnforcing(roomId, videoId) ==
  /\ variant = "enforcing"
  /\ rooms' = With(rooms, roomId, PendingRoom(videoId))
  /\ emits' = <<[to |-> NoSocket, ev |-> "POST /create-room:response",
                 success |-> TRUE, videoId |-> videoId, roomId |-> roomId]>>
  /\ event' = [name |-> "POST /create-room", id |-> NoSocket, roomId |-> roomId]
  /\ UNCHANGED <<variant, now, opened, closedBefore, sockets, groups,
                 userSocketMap, connectionHealth, timers, nextSweep,
                 peerIdMap, userLeftSeen, reconnected, snapshotAt,
                 chatOnlyIn>>

----------------------------------------------------------------------------
(* Host-enforcing server: app.post('/upload-chunk') *)

\* the numbers a client sends as chunkIndex and totalChunks
MaxChunks == 2

\* how the multer callback ends: the chunk is stored and appended, the upload
\* is refused (err, or no file: status 400), or a file operation throws
\* (status 500)
UploadOutcomes == {"stored", "refused", "failed"}

\* `/videos/${videoId}.mp4`
UploadedUrl(videoId) == <<"/", "videos/", videoId, ".mp4">>

RECURSIVE GCD(_, _)
GCD(a, b) == IF b = 0 THEN a ELSE GCD(b, a % b)

\* 2^e modulo d
RECURSIVE Pow2Mod(_, _)
Pow2Mod(e, d) == IF e = 0 THEN 1 % d ELSE (2 * Pow2Mod(e - 1, d)) % d

\* 2^k <= a / b, for positive a and b
AtLeastPow2(a, b, k) ==
  IF k >= 0 THEN b * Pow2(k) <= a ELSE a >= b \/ b <= a * Pow2(-k)

\* the binary exponent of a / b
Log2Floor(a, b) ==
  CHOOSE k \in -16 .. 16 : AtLeastPow2(a, b, k) /\ ~AtLeastPow2(a, b, k + 1)

\* 100 * n / t is a whole number and a half, and the doubles give less:
\* n / t is rounded to 53 bits, which leaves the signed remainder `left` of
\* the division by the odd part of the denominator, and the product with 100
\* stays below the half when that is more than half a unit in the last place
RoundsBelowHalf(n, t) ==
  LET odd == (t \div GCD(n, t)) \div 8
      quotient == Log2Floor(n, t)
      product == Log2Floor(100 * n, t)
      rest == (((n \div GCD(n, t)) % odd) * Pow2Mod(49 - quotient, odd)) % odd
      left == IF 2 * rest < odd THEN rest ELSE rest - odd
  IN 100 * left > odd * Pow2(product - quotient - 1)

\* Math.round(((chunkIndex + 1) / totalChunks) * 100) on doubles, for
\* totalChunks of 1 and more: the nearest whole number, and at a half the
\* upper one unless the doubles fall short of the half (23 / 40 gives 57)
Progress(chunkIndex, totalChunks) ==
  LET n == chunkIndex + 1
  IN IF (200 * n) % totalChunks = 0 /\ ((200 * n) \div totalChunks) % 2 = 1
     THEN (100 * n) \div totalChunks
          + (IF RoundsBelowHalf(n, totalChunks) THEN 0 ELSE 1)
     ELSE (200 * n + totalChunks) \div (2 * totalChunks)

\* The room is read and written in the callback of multer, after the chunk
\* has been written to disk; the handler itself touches only the disk, so
\* the request and its callback are one step, taken when the callback runs.
\* The files under chunks/ and uploads/ are not part of the state.
UploadChunk(videoId, roomId, chunkIndex, totalChunks, outcome) ==
  /\ variant = "enforcing"
  /\ LET videoUrl == UploadedUrl(videoId)
         isLastChunk == chunkIndex = totalChunks - 1
         known == roomId # NoRoom /\ roomId \in DOMAIN rooms
         first == known /\ (chunkIndex = 0 \/ rooms[roomId].videoUrl = NoUrl)
     IN
       IF videoId = NoVideo
       THEN /\ rooms' = rooms
            /\ emits' = <<[to |-> NoSocket, ev |-> "POST /upload-chunk:response",
                           status |-> 400, error |-> "Missing required parameters"]>>
       ELSE IF outcome # "stored"
       THEN /\ rooms' = rooms
            /\ emits' = <<[to |-> NoSocket, ev |-> "POST /upload-chunk:response",
                           status |-> IF outcome = "refused" THEN 400 ELSE 500,
                           error |-> outcome]>>
       ELSE /\ rooms' =
                 IF known
                 THEN [rooms EXCEPT
                         ![roomId].videoUrl = IF first THEN videoUrl ELSE @,
                         ![roomId].uploadComplete = IF isLastChunk THEN TRUE ELSE @]
                 ELSE rooms
            /\ emits' =
                 (IF first
                  THEN ToRoom(groups, sockets, roomId,
                              [ev |-> "videoUrlUpdate", videoUrl |-> videoUrl])
                  ELSE <<>>)
                 \o (IF known /\ isLastChunk
                     THEN ToRoom(groups, sockets, roomId,
                                 [ev |-> "uploadComplete", videoId |-> videoId,
                                  videoUrl |-> videoUrl])
                     ELSE <<>>)
                 \o (IF known
                     THEN ToRoom(groups, sockets, roomId,
                                 [ev |-> "uploadProgress",
                                  progress |-> Progress(chunkIndex, totalChunks),
                                  videoId |-> videoId])
                     ELSE <<>>)
                 \o <<[to |-> NoSocket, ev |-> "POST /upload-chunk:response",
                       status |-> 200, success |-> TRUE,
                       message |-> <<"Chunk ", chunkIndex + 1, "/", totalChunks,
                                     " processed">>,
                       videoId |-> videoId, videoUrl |-> videoUrl,
                       isComplete |-> isLastChunk]>>
  /\ event' = [name |-> "POST /upload-chunk", id |-> NoSocket, roomId |-> roomId]
  /\ UNCHANGED <<variant, now, opened, closedBefore, sockets, groups,
                 userSocketMap, connectionHealth, timers, nextSweep,
                 peerIdMap, userLeftSeen, reconnected, snapshotAt,
                 chatOnlyIn>>

----------------------------------------------------------------------------
(* Host-enforcing server: socket.on('videoStateChange') *)

\* currentTime is counted in tenths of a second, and the code computes with
\* the IEEE doubles nearest to those decimals: the double of t/10 is
\* t/10 + RoundingError(t) * 2^-56 / 10  (for 0.1 s and more every double is a
\* multiple of 2^-56).
\* the binary exponent of t/10, counted from 2^-4:  2^(k-4) <= t/10 < 2^(k-3)
BinaryExponent(t) ==
  CHOOSE k \in 0 .. 20 : 10 * Pow2(k) <= 16 * t /\ 16 * t < 10 * Pow2(k + 1)

\* the last decimal digit of 2^n, n >= 1
LastDigitOfPow2(n) ==
  IF n % 4 = 1 THEN 2 ELSE IF n % 4 = 2 THEN 4 ELSE IF n % 4 = 3 THEN 8 ELSE 6

\* round to nearest of the 53-bit significand t * 2^(56-k) / 10: what the
\* division leaves decides the direction (a tie cannot happen)
RoundingError(t) ==
  IF t = 0 THEN 0
  ELSE LET k == BinaryExponent(t)
           left == ((t % 10) * LastDigitOfPow2(56 - k)) % 10
       IN (IF left < 5 THEN -left ELSE 10 - left) * Pow2(k)

\* Math.abs(a - b) > 1.0  on the doubles: apart from a decimal difference of
\* exactly one second the roundings cannot change the answer; there the
\* difference is 1 + excess * 2^-56 / 10, rounded to a multiple of 2^-52
\* (ties to even), which is above 1.0 when excess is more than 2^-53
ExceedsOneSecond(a, b) ==
  IF Abs(a - b) # SignificantDelta
  THEN Abs(a - b) > SignificantDelta
  ELSE (IF a > b THEN RoundingError(a) - RoundingError(b)
        ELSE RoundingError(b) - RoundingError(a)) > 80

IsSignificantChange(currentState, isPlaying, currentTime) ==
  \/ currentState.isPlaying # isPlaying
  \/ ExceedsOneSecond(currentState.currentTime, currentTime)

VideoStateChangeEnforcing(id, roomId, isPlaying, currentTime) ==
  /\ variant = "enforcing"
  /\ id \in sockets
  /\ IF roomId \notin DOMAIN rooms
     THEN /\ rooms' = rooms
          /\ emits' = <<>>
     ELSE IF id = rooms[roomId].hostId
     THEN IF IsSignificantChange(rooms[roomId].videoState, isPlaying, currentTime)
          THEN /\ rooms' = [rooms EXCEPT ![roomId].videoState =
                              [isPlaying |-> isPlaying, currentTime |-> currentTime,
                               lastUpdate |-> now]]
               /\ emits' = ToRoomExcept(groups, sockets, roomId, id,
                              [ev |-> "videoStateUpdate", isPlaying |-> isPlaying,
                               currentTime |-> currentTime, lastUpdate |-> now])
          ELSE /\ rooms' = rooms
               /\ emits' = <<>>
     ELSE /\ rooms' = rooms
          /\ emits' = ToSocket(sockets, id,
                         [ev |-> "videoStateUpdate",
                          isPlaying |-> rooms[roomId].videoState.isPlaying,
                          currentTime |-> rooms[roomId].videoState.currentTime,
                          lastUpdate |-> rooms[roomId].videoState.lastUpdate])
  /\ event' = [name |-> "videoStateChange", id |-> id, roomId |-> roomId,
               isPlaying |-> isPlaying, currentTime |-> currentTime]
  /\ UNCHANGED <<variant, now, opened, closedBefore, sockets, groups,
                 userSocketMap, connectionHealth, timers, nextSweep,
                 peerIdMap, userLeftSeen, reconnected, snapshotAt,
                 chatOnlyIn>>

----------------------------------------------------------------------------
(* Host-enforcing server: socket.on('updateVideoUrl'), socket.on('shareVideo') *)

\* the URLs a host shares: none, a relative path, a path from the root, an
\* absolute URL
VideoUrls ==
  {NoUrl, <<"videos/a.mp4">>, <<"/", "videos/a.mp4">>, <<"https://", "cdn/a.mp4">>}

fixVideoUrl(url) ==
  IF url = NoUrl THEN url
  ELSE IF Head(url) \in {"http://", "https://"} THEN url
  ELSE IF Head(url) # "/" THEN <<"/">> \o url
  ELSE url

\* the sender is the host of an existing room
FromHost(id, roomId) == roomId \in DOMAIN rooms /\ id = rooms[roomId].hostId

UpdateVideoUrl(id, roomId, videoUrl) ==
  /\ variant = "enforcing"
  /\ id \in sockets
  /\ IF FromHost(id, roomId)
     THEN /\ rooms' = [rooms EXCEPT ![roomId].videoUrl = fixVideoUrl(videoUrl)]
          /\ emits' = ToRoomExcept(groups, sockets, roomId, id,
                         [ev |-> "videoUrlUpdate",
                          videoUrl |-> fixVideoUrl(videoUrl)])
     ELSE /\ rooms' = rooms
          /\ emits' = <<>>
  /\ event' = [name |-> "updateVideoUrl", id |-> id, roomId |-> roomId]
  /\ UNCHANGED <<variant, now, opened, closedBefore, sockets, groups,
                 userSocketMap, connectionHealth, timers, nextSweep,
                 peerIdMap, userLeftSeen, reconnected, snapshotAt,
                 chatOnlyIn>>

ShareVideo(id, roomId, videoUrl) ==
  /\ variant = "enforcing"
  /\ id \in sockets
  /\ IF FromHost(id, roomId)
     THEN /\ rooms' = [rooms EXCEPT ![roomId].videoUrl = fixVideoUrl(videoUrl)]
          /\ emits' = ToRoom(groups, sockets, roomId,
                         [ev |-> "videoUrlUpdate",
                          videoUrl |-> fixVideoUrl(videoUrl)])
     ELSE /\ rooms' = rooms
          /\ emits' = <<>>
  /\ event' = [name |-> "shareVideo", id |-> id, roomId |-> roomId]
  /\ UNCHANGED <<variant, now, opened, closedBefore, sockets, groups,
                 userSocketMap, connectionHealth, timers, nextSweep,
                 peerIdMap, userLeftSeen, reconnected, snapshotAt,
                 chatOnlyIn>>

----------------------------------------------------------------------------
(* Host-enforcing server: socket.on('disconnect') *)

\* room.users.splice(userIndex, 1)
Splice(users, idx) ==
  [i \in 1 .. Len(users) - 1 |-> IF i < idx THEN users[i] ELSE users[i + 1]]

\* the room after the departing connection's first record is removed and,
\* if it was the host and somebody remains, the first remaining user is promoted
LeaveRoom(room, id) ==
  LET rest == Splice(room.users, FindIndex(room.users, id))
      handoff == room.hostId = id /\ Len(rest) > 0
  IN [room EXCEPT
        !.users = IF handoff THEN [rest EXCEPT ![1].isHost = TRUE] ELSE rest,
        !.hostId = IF handoff THEN rest[1].id ELSE @]

LeaveNotices(grp, open, roomId, id) ==
  LET room == rooms[roomId]
      after == LeaveRoom(room, id)
  IN (IF room.hostId = id /\ Len(after.users) > 0
      THEN ToRoom(grp, open, roomId,
                  [ev |-> "systemMessage", left |-> id, newHost |-> after.hostId])
      ELSE <<>>)
     \o ToRoom(grp, open, roomId,
               [ev |-> "userLeft", userId |-> id, users |-> after.users])

DisconnectEnforcing(id) ==
  /\ variant = "enforcing"
  /\ id \in sockets
  /\ LET open == sockets \ {id}
         left == LeaveGroups(groups, id)
         member == {roomId \in DOMAIN rooms : FindIndex(rooms[roomId].users, id) # 0}
         kept == {roomId \in DOMAIN rooms :
                    roomId \in member => Len(rooms[roomId].users) > 1}
     IN
       /\ sockets' = open
       /\ groups' = left
       /\ rooms' = [roomId \in kept |->
                      IF roomId \in member THEN LeaveRoom(rooms[roomId], id)
                      ELSE rooms[roomId]]
       /\ emits' = Concat([i \in 1 .. Len(RoomOrder) |->
                      IF RoomOrder[i] \in member
                      THEN LeaveNotices(left, open, RoomOrder[i], id)
                      ELSE <<>>])
  /\ userLeftSeen' = CountUserLeft(userLeftSeen, emits', id)
  /\ event' = [name |-> "disconnect", id |-> id]
  /\ UNCHANGED <<variant, now, opened, closedBefore, userSocketMap,
                 connectionHealth, timers, nextSweep, peerIdMap, reconnected,
                 snapshotAt, chatOnlyIn>>

----------------------------------------------------------------------------
(* Specifications *)

\* the room whose playback is followed in the single-room runs
SyncRooms == {"ROOMA1"}

\* the roles clients ask for in the runs with a running clock: the first
\* connection is the host's, the last one is a client coming back in either
\* role, the ones in between are viewers
Roles(id) ==
  IF id = 1 THEN {TRUE} ELSE IF id = MaxSockets THEN BOOLEAN ELSE {FALSE}

\* <<previous id, new id>>: what a client reconnecting inside the grace period
\* announces, the id of a connection that had closed when the new connection
\* was opened and whose removal is still pending
Reconnections ==
  {pair \in Sockets \X Sockets :
     /\ pair[1] \in closedBefore[pair[2]]
     /\ InGrace(pair[2], pair[1]) # {}}

\* Join and playback synchronisation in one room, both servers, with the
\* video sharing and chunk upload of the host-enforcing server; the clock
\* stands still, so removals after the grace period do not happen here.
Next ==
  \/ Connection(SyncSockets)
  \/ \E id \in Sockets, roomId \in SyncRooms, role \in JoinRoles :
       JoinRoom(id, roomId, role.isHost, role.isChatOnly)
  \/ \E id \in Sockets, roomId \in SyncRooms, videoState \in VideoStates :
       VideoStateChange(id, roomId, videoState.isPlaying, videoState.currentTime)
  \/ \E id \in Sockets : Disconnect(id)
  \/ \E id \in Sockets, roomId \in SyncRooms, isHost \in BOOLEAN :
       JoinRoomEnforcing(id, roomId, isHost)
  \/ \E id \in Sockets, roomId \in SyncRooms, videoState \in VideoStates :
       VideoStateChangeEnforcing(id, roomId, videoState.isPlaying, videoState.currentTime)
  \/ \E id \in Sockets : DisconnectEnforcing(id)
  \/ \E roomId \in SyncRooms, videoId \in VideoIds :
       PostCreateRoomEnforcing(roomId, videoId)
  \/ \E videoId \in VideoIds \cup {NoVideo}, roomId \in SyncRooms \cup {NoRoom} :
       \E chunkIndex \in 0 .. MaxChunks - 1, totalChunks \in 1 .. MaxChunks :
         \E outcome \in UploadOutcomes :
           UploadChunk(videoId, roomId, chunkIndex, totalChunks, outcome)
  \/ \E id \in Sockets, roomId \in SyncRooms, videoUrl \in VideoUrls :
       UpdateVideoUrl(id, roomId, videoUrl)
  \/ \E id \in Sockets, roomId \in SyncRooms, videoUrl \in VideoUrls :
       ShareVideo(id, roomId, videoUrl)

Spec == Init /\ [][Next]_vars

InitHealth == Init /\ variant = "health"

\* Membership over time in one room of the reconnection-tolerant server:
\* joins, disconnects, reconnection handshakes (peer-id naming a closed
\* previous connection), the grace-period callback and the periodic sweep,
\* with the clock running.
NextGrace ==
  \/ Connection(MaxSockets)
  \/ \E id \in Sockets, roomId \in SyncRooms, isHost \in BOOLEAN :
       isHost \in Roles(id) /\ JoinRoom(id, roomId, isHost, FALSE)
  \/ \E id \in Sockets : Disconnect(id)
  \/ \E pair \in Reconnections, roomId \in SyncRooms, peerId \in PeerIds :
       PeerId(pair[2], roomId, peerId, FALSE, pair[1])
  \/ Timeout
  \/ Sweep
  \/ Advance

SpecGrace == InitHealth /\ [][NextGrace]_vars

\* The room registry of the reconnection-tolerant server over time: viewers
\* joining either room, disconnects, the grace-period callback, the periodic
\* sweep and room creation.
NextRegistry ==
  \/ Connection(RegistrySockets)
  \/ \E id \in Sockets, roomId \in RoomIds : JoinRoom(id, roomId, FALSE, FALSE)
  \/ \E id \in Sockets : Disconnect(id)
  \/ Timeout
  \/ Sweep
  \/ Advance
  \/ \E id \in Sockets, withCallback \in BOOLEAN : CreateRoom(id, withCallback)
  \/ PostCreateRoom

SpecRegistry == InitHealth /\ [][NextRegistry]_vars

\* Membership of connections that join more than one room of the
\* reconnection-tolerant server, with the clock running.
NextRooms ==
  \/ Connection(RoomsSockets)
  \/ \E id \in Sockets, roomId \in RoomIds : JoinRoom(id, roomId, FALSE, FALSE)
  \/ \E id \in Sockets : Disconnect(id)
  \/ Timeout
  \/ Sweep
  \/ Advance

SpecRooms == InitHealth /\ [][NextRooms]_vars

\* Freshness of the cached snapshot: one room, the clock runs past the two
\* minutes of the joinRoom test (with the sweep every 15 s), and the snapshot
\* is stored by each of the three handlers that store one.
FreshSockets == 2
FreshNow == 135000

\* the timestamp field of a fallback-sync-state: absent, or the reading of a
\* client clock that is ahead of the server's
ClientStamps == {0, 300000}

\* the playback events come from the connection that is the room's host
Hosting(id, roomId) == roomId \in DOMAIN rooms /\ rooms[roomId].host = id

NextFresh ==
  \/ Connection(FreshSockets)
  \/ \E id \in Sockets, roomId \in SyncRooms :
       \E isHost \in Roles(id) : JoinRoom(id, roomId, isHost, FALSE)
  \/ \E id \in Sockets, roomId \in SyncRooms :
       Hosting(id, roomId) /\ VideoStateChange(id, roomId, FALSE, 0)
  \/ \E id \in Sockets, roomId \in SyncRooms :
       Hosting(id, roomId) /\ VideoSeekOperation(id, roomId, 11, <<>>, 0)
  \/ \E id \in Sockets, roomId \in SyncRooms, timestamp \in ClientStamps :
       Hosting(id, roomId) /\ FallbackSyncState(id, roomId, 5, TRUE, timestamp, NoSocket)
  \/ Sweep
  \/ AdvanceTo(FreshNow)

SpecFresh == InitHealth /\ [][NextFresh]_vars

\* The sweep over a long silence: the clients act in the first seconds (a
\* connection may join both rooms, send heartbeats and close), then the clock
\* runs, with the sweep every 15 s, past the five minutes after which the
\* sweep drops an inactive participant.
SweepSockets == 1
BusyUntil == 15000
SweepNow == 375000

Busy == now <= BusyUntil

NextSweeps ==
  \/ Busy /\ Connection(SweepSockets)
  \/ \E id \in Sockets, roomId \in RoomIds : Busy /\ JoinRoom(id, roomId, FALSE, FALSE)
  \/ \E id \in Sockets, roomId \in RoomIds : Busy /\ Heartbeat(id, roomId)
  \/ \E id \in Sockets : Busy /\ Disconnect(id)
  \/ Timeout
  \/ Sweep
  \/ AdvanceTo(SweepNow)

SpecSweeps == InitHealth /\ [][NextSweeps]_vars

\* A room left alone for more than thirty minutes: the clients of one room
\* act in the first seconds and again once the thirty minutes have passed,
\* and are silent in between; the sweep runs every 15 s throughout.
LongSockets == 2
LongNow == 1845000

BusyOrLate == now <= BusyUntil \/ now > RoomTimeout

\* connection 1 presents: it joins as host and sends the playback events;
\* the other connections join as chat-only
Presents(id) == id = 1

NextLong ==
  \/ BusyOrLate /\ Connection(LongSockets)
  \/ \E id \in Sockets, roomId \in SyncRooms :
       BusyOrLate /\ JoinRoom(id, roomId, Presents(id), ~Presents(id))
  \/ \E id \in Sockets, roomId \in SyncRooms : BusyOrLate /\ Heartbeat(id, roomId)
  \/ \E id \in Sockets, roomId \in SyncRooms :
       BusyOrLate /\ Presents(id) /\ VideoStateChange(id, roomId, FALSE, 0)
  \/ \E id \in Sockets, roomId \in SyncRooms :
       BusyOrLate /\ Presents(id) /\ VideoSeekOperation(id, roomId, 11, <<>>, 0)
  \/ \E id \in Sockets, roomId \in SyncRooms, targetSocketId \in {NoSocket} \cup Sockets :
       BusyOrLate /\ Presents(id)
         /\ FallbackSyncState(id, roomId, 5, TRUE, 0, targetSocketId)
  \/ \E id \in Sockets, roomId \in SyncRooms :
       BusyOrLate /\ Presents(id) /\ StreamingAboutToStart(id, roomId)
  \/ Sweep
  \/ AdvanceTo(LongNow)

SpecLong == InitHealth /\ [][NextLong]_vars

\* The 30 minutes of a room: the first connection joins one room or both,
\* the others one room; they send heartbeats and close in the first seconds
\* and again once the thirty minutes have passed; in between the sweep runs
\* every 15 s, marks and, five minutes later, drops the participant whose
\* connection has closed.
IdleSockets == 1

IdleRooms(id) == IF id = 1 THEN RoomIds ELSE SyncRooms

NextIdle ==
  \/ BusyOrLate /\ Connection(IdleSockets)
  \/ \E id \in Sockets : \E roomId \in IdleRooms(id) :
       BusyOrLate /\ JoinRoom(id, roomId, FALSE, FALSE)
  \/ \E id \in Sockets : \E roomId \in IdleRooms(id) :
       BusyOrLate /\ Heartbeat(id, roomId)
  \/ \E id \in Sockets : BusyOrLate /\ Disconnect(id)
  \/ Timeout
  \/ Sweep
  \/ AdvanceTo(LongNow)

SpecIdle == InitHealth /\ [][NextIdle]_vars

\* Joining a room whose streaming status changes: one room, frozen clock.
StreamInfos ==
  {[streaming |-> TRUE, fileName |-> "movie.mp4", fileType |-> "video/mp4"],
   [streaming |-> FALSE, fileName |-> "null", fileType |-> "null"]}

NextStream ==
  \/ Connection(SyncSockets)
  \/ \E id \in Sockets, roomId \in SyncRooms, role \in JoinRoles :
       JoinRoom(id, roomId, role.isHost, role.isChatOnly)
  \/ \E id \in Sockets, roomId \in SyncRooms, info \in StreamInfos :
       StreamingStatusUpdate(id, roomId, info.streaming, info.fileName, info.fileType)
  \/ \E id \in Sockets : Disconnect(id)

SpecStream == InitHealth /\ [][NextStream]_vars

\* The departure of a host: one room whose participants join in any role
\* (and join again in another), switch streaming on and off and close; the
\* clock runs through the grace period.
HostSockets == 2

NextHost ==
  \/ Connection(HostSockets)
  \/ \E id \in Sockets, roomId \in SyncRooms, role \in JoinRoles :
       JoinRoom(id, roomId, role.isHost, role.isChatOnly)
  \/ \E id \in Sockets, roomId \in SyncRooms, info \in StreamInfos :
       Hosting(id, roomId)
         /\ StreamingStatusUpdate(id, roomId, info.streaming, info.fileName, info.fileType)
  \/ \E id \in Sockets : Disconnect(id)
  \/ Timeout
  \/ Sweep
  \/ Advance

SpecHost == InitHealth /\ [][NextHost]_vars

\* A participant the sweep finds lost: connection 1 is the host and may join
\* both rooms, so that its record in the room it joined first is still active
\* when it closes; the other connections are viewers or chat-only viewers of
\* one room.  The clients act in the first seconds, the clock runs through
\* the grace period and the sweeps that follow it.
LostSockets == 2
LostNow == 45000

LostRooms(id) == IF Presents(id) THEN RoomIds ELSE SyncRooms

\* the second connection is the client that may come as a chat-only viewer
ChatRoles(id) == IF id = 2 THEN BOOLEAN ELSE {FALSE}

NextLost ==
  \/ Busy /\ Connection(LostSockets)
  \/ \E id \in Sockets :
       \E roomId \in LostRooms(id), isChatOnly \in ChatRoles(id) :
         Busy /\ JoinRoom(id, roomId, Presents(id), isChatOnly)
  \/ \E id \in Sockets : Busy /\ Heartbeat(id, userSocketMap[id])
  \/ \E id \in Sockets : Busy /\ Disconnect(id)
  \/ Timeout
  \/ Sweep
  \/ AdvanceTo(LostNow)

SpecLost == InitHealth /\ [][NextLost]_vars

\* Liveness of the clean-up.  Connection 1 may join both rooms and close in
\* the first seconds; the other connections join one room and, as long as
\* they are open, send a heartbeat in every interval of the clock.  The
\* setTimeout callbacks and the setInterval callback run when they are due
\* and the clock keeps moving: Node's timers fire as long as the process
\* runs.  The handlers read the clock only to compare an age, now - t, with
\* a threshold of at most RoomTimeout.  Up to SweepNow the clock is kept as it
\* is; from then on it is kept relative: when an interval passes, every
\* stored time moves back by its length instead of the clock moving forward,
\* and a time older than every threshold stays at OldestKept.  Every age, and
\* so every comparison of the handlers, is the one of the running process;
\* the timestamp a heartbeat-ack carries is then the relative one.
LiveSockets == 2

Closed(id) == id <= opened /\ id \notin sockets

Listed(id) == \E roomId \in DOMAIN rooms : FindIndex(rooms[roomId].users, id) # 0

\* the heartbeat a client sends for the room it joined last, once per instant
Beat(id) ==
  /\ id \in sockets
  /\ connectionHealth[id].lastHeartbeat < now
  /\ Heartbeat(id, userSocketMap[id])

\* every open connection has sent its heartbeat for this instant
Alive == \A id \in sockets : connectionHealth[id].lastHeartbeat = now

\* ages above RoomTimeout + TickStep are not told apart
OldestKept == now - RoomTimeout - TickStep

\* the time t once delta more milliseconds have passed, relative to the clock
Earlier(t, delta) ==
  IF t = Undefined THEN Undefined
  ELSE IF t - delta < OldestKept THEN OldestKept ELSE t - delta

\* delta milliseconds pass with the clock kept relative
Elapse(delta) ==
  /\ rooms' =
       [roomId \in DOMAIN rooms |->
          [rooms[roomId] EXCEPT
             !.lastActive = Earlier(@, delta),
             !.users = [i \in DOMAIN @ |->
                          [@[i] EXCEPT !.disconnectedAt = Earlier(@, delta)]],
             !.syncState = [i \in DOMAIN @ |->
                              [@[i] EXCEPT !.timestamp = Earlier(@, delta)]]]]
  /\ connectionHealth' =
       [id \in DOMAIN connectionHealth |->
          [connectionHealth[id] EXCEPT
             !.lastHeartbeat = Earlier(@, delta),
             !.disconnectedAt = Earlier(@, delta)]]
  /\ timers' = [i \in DOMAIN timers |-> [timers[i] EXCEPT !.due = @ - delta]]
  /\ nextSweep' = nextSweep - delta
  /\ snapshotAt' = [roomId \in DOMAIN snapshotAt |->
                      Earlier(snapshotAt[roomId], delta)]
  /\ event' = [name |-> "advance"]
  /\ emits' = <<>>
  /\ UNCHANGED <<variant, now, opened, closedBefore, sockets, groups,
                 userSocketMap, peerIdMap, userLeftSeen, reconnected,
                 chatOnlyIn>>

\* the clock moves to the next instant at which something is due, once every
\* open connection has sent its heartbeat; it never stops
Tick ==
  /\ Busy \/ Alive
  /\ NextDue > now
  /\ IF NextDue <= SweepNow THEN AdvanceTo(SweepNow) ELSE Elapse(NextDue - now)

NextLive ==
  \/ Busy /\ Connection(LiveSockets)
  \/ \E id \in Sockets : \E roomId \in LostRooms(id) :
       Busy /\ JoinRoom(id, roomId, FALSE, FALSE)
  \/ \E id \in Sockets : Beat(id)
  \/ \E id \in Sockets : Busy /\ Disconnect(id)
  \/ Timeout
  \/ Sweep
  \/ Tick

SpecLive ==
  /\ InitHealth
  /\ [][NextLive]_vars
  /\ WF_vars(Timeout)
  /\ WF_vars(Sweep)
  /\ WF_vars(Tick)
  /\ \A id \in Sockets : WF_vars(Beat(id))

\* Relaying between the participants of one room of the reconnection-tolerant
\* server: snapshots pushed by any connection to a room or to one target,
\* seeks, playback changes and heartbeats, also for a room that does not
\* exist; the clock stands still.
RelaySockets == 2

Targets == {NoSocket} \cup Sockets

NextRelay ==
  \/ Connection(RelaySockets)
  \/ \E id \in Sockets, roomId \in SyncRooms, role \in JoinRoles :
       JoinRoom(id, roomId, role.isHost, role.isChatOnly)
  \/ \E id \in Sockets, roomId \in RoomIds, targetSocketId \in Targets :
       FallbackSyncState(id, roomId, 5, TRUE, 0, targetSocketId)
  \/ \E id \in Sockets, roomId \in RoomIds :
       VideoSeekOperation(id, roomId, 11, <<>>, 0)
  \/ \E id \in Sockets, roomId \in RoomIds :
       VideoStateChange(id, roomId, FALSE, 0)
  \/ \E id \in Sockets, roomId \in RoomIds : Heartbeat(id, roomId)
  \/ \E id \in Sockets : Disconnect(id)

SpecRelay == InitHealth /\ [][NextRelay]_vars

\* Signalling for the direct connections in the reconnection-tolerant
\* server: peer ids registered with any previous connection id (absent, the
\* sender's own, another connection's, one never opened), failure reports
\* and reconnection requests, also for a room that does not exist; the clock
\* stands still, so a host that has closed is still the room's host.
SignalSockets == 2

SignalPeers == {"peer-a", "peer-b"}

NextSignal ==
  \/ Connection(SignalSockets)
  \/ \E id \in Sockets, roomId \in SyncRooms, role \in JoinRoles :
       JoinRoom(id, roomId, role.isHost, role.isChatOnly)
  \/ \E id \in Sockets, peerId \in SignalPeers, previousSocketId \in Targets :
       PeerId(id, userSocketMap[id], peerId, FALSE, previousSocketId)
  \/ \E id \in Sockets, roomId \in RoomIds, peerId \in SignalPeers :
       WebrtcConnectionFailed(id, roomId, peerId)
  \/ \E id \in Sockets, roomId \in RoomIds :
       RequestReconnection(id, roomId, PeerOf(peerIdMap, id))
  \/ \E id \in Sockets : Disconnect(id)

SpecSignal == InitHealth /\ [][NextSignal]_vars

\* Events that name a room outside the registry: every handler of the
\* reconnection-tolerant server that takes a room id, sent by a connection
\* for a room nobody has joined (before and after it joins another one),
\* next to joinRoom and the two ways of asking for a room id.
FrameSockets == 1

\* the room id of the event is not (or no longer) in the registry
Missing(roomId) == roomId \notin DOMAIN rooms

NextFrame ==
  \/ Connection(FrameSockets)
  \/ \E id \in Sockets, roomId \in SyncRooms :
       \E isHost \in Roles(id) : JoinRoom(id, roomId, isHost, FALSE)
  \/ \E id \in Sockets, roomId \in RoomIds :
       Missing(roomId) /\ VideoStateChange(id, roomId, FALSE, 0)
  \/ \E id \in Sockets, roomId \in RoomIds :
       Missing(roomId) /\ VideoSeekOperation(id, roomId, 11, <<>>, 0)
  \/ \E id \in Sockets, roomId \in RoomIds :
       Missing(roomId) /\ FallbackSyncState(id, roomId, 5, TRUE, 0, NoSocket)
  \/ \E id \in Sockets, roomId \in RoomIds :
       /\ Missing(roomId)
       /\ StreamingStatusUpdate(id, roomId, TRUE, "movie.mp4", "video/mp4")
  \/ \E id \in Sockets, roomId \in RoomIds :
       Missing(roomId) /\ StreamingAboutToStart(id, roomId)
  \/ \E id \in Sockets, roomId \in RoomIds :
       Missing(roomId) /\ Heartbeat(id, roomId)
  \/ \E id \in Sockets, roomId \in RoomIds :
       Missing(roomId) /\ RequestReconnection(id, roomId, PeerOf(peerIdMap, id))
  \/ \E id \in Sockets, roomId \in RoomIds, peerId \in PeerIds :
       Missing(roomId) /\ WebrtcConnectionFailed(id, roomId, peerId)
  \/ \E id \in Sockets, withCallback \in BOOLEAN : CreateRoom(id, withCallback)
  \/ PostCreateRoom
  \/ \E id \in Sockets : Disconnect(id)
  \/ Timeout
  \/ Sweep
  \/ Advance

SpecFrame == InitHealth /\ [][NextFrame]_vars

\* The end of a stream: the host of one room stores snapshots, switches
\* streaming on and off and closes; a viewer stays and joins again; the clock
\* runs through the grace period of the host.
StopSockets == 2

NextStop ==
  \/ Connection(StopSockets)
  \/ \E id \in Sockets, roomId \in SyncRooms :
       \E isHost \in Roles(id) : JoinRoom(id, roomId, isHost, FALSE)
  \/ \E id \in Sockets, roomId \in SyncRooms :
       Hosting(id, roomId) /\ VideoStateChange(id, roomId, TRUE, 5)
  \/ \E id \in Sockets, roomId \in SyncRooms, info \in StreamInfos :
       Hosting(id, roomId)
         /\ StreamingStatusUpdate(id, roomId, info.streaming, info.fileName, info.fileType)
  \/ \E id \in Sockets : Disconnect(id)
  \/ Timeout
  \/ Sweep
  \/ Advance

SpecStop == InitHealth /\ [][NextStop]_vars

\* Playback updates in one room, both servers. In the reconnection-tolerant
\* server the first connection joins as host and the others as viewers (the
\* second also as chat-only); in the host-enforcing server every connection
\* joins as host or as viewer, and POST /create-room hands the room id out
\* anew. Connections close. The updates move the position to 1.2 s, then one
\* second further, and start playing; the clock stands still.
UpdateSockets == 2

FirstSocket == 1

UpdateStates ==
  {[isPlaying |-> FALSE, currentTime |-> 12], [isPlaying |-> FALSE, currentTime |-> 22],
   [isPlaying |-> TRUE, currentTime |-> 22]}

NextUpdate ==
  \/ Connection(UpdateSockets)
  \/ \E id \in Sockets, roomId \in SyncRooms :
       \E isChatOnly \in ChatRoles(id) :
         JoinRoom(id, roomId, id = FirstSocket, isChatOnly)
  \/ \E id \in Sockets, roomId \in SyncRooms, videoState \in UpdateStates :
       VideoStateChange(id, roomId, videoState.isPlaying, videoState.currentTime)
  \/ \E id \in Sockets : Disconnect(id)
  \/ \E id \in Sockets, roomId \in SyncRooms, isHost \in BOOLEAN :
       JoinRoomEnforcing(id, roomId, isHost)
  \/ \E id \in Sockets, roomId \in SyncRooms, videoState \in UpdateStates :
       VideoStateChangeEnforcing(id, roomId, videoState.isPlaying, videoState.currentTime)
  \/ \E id \in Sockets : DisconnectEnforcing(id)
  \/ \E roomId \in SyncRooms, videoId \in VideoIds :
       PostCreateRoomEnforcing(roomId, videoId)

SpecUpdate == Init /\ [][NextUpdate]_vars

\* Reconnection requests in the reconnection-tolerant server: the first
\* connection joins as host and the others as viewers, in any order, so a
\* room may have no host yet; connections close, the grace period runs out
\* and the departed host is removed; requests name the room or a room that
\* does not exist.
RequestSockets == 2

NextRequest ==
  \/ Connection(RequestSockets)
  \/ \E id \in Sockets, roomId \in SyncRooms :
       JoinRoom(id, roomId, id = FirstSocket, FALSE)
  \/ \E id \in Sockets, roomId \in RoomIds, viewerPeerId \in PeerIds :
       RequestReconnection(id, roomId, viewerPeerId)
  \/ \E id \in Sockets : Disconnect(id)
  \/ Timeout
  \/ Sweep
  \/ Advance

SpecRequest == InitHealth /\ [][NextRequest]_vars

----------------------------------------------------------------------------
(* Properties *)

CreateReplies == {"roomCreated", "create-room:callback", "POST /create-room:response"}

\* C1: the identifier carried by a create-room reply (socket event, callback
\* or HTTP response) is not the identifier of a room that is in the registry
\* at the moment the reply is sent.
C1_FreshRoomId ==
  \A i \in 1 .. Len(emits) :
    emits[i].ev \in CreateReplies => emits[i].roomId \notin DOMAIN rooms

\* a reply was sent while the registry held a room
C1_Witness ==
  /\ DOMAIN rooms # {}
  /\ \E i \in 1 .. Len(emits) : emits[i].ev \in CreateReplies

\* C2: in every room at most one participant has isHost = true: the records
\* with isHost = true all belong to one connection.
C2_AtMostOneHost ==
  \A roomId \in DOMAIN rooms :
    Cardinality({rooms[roomId].users[i].id : i \in
                   {j \in 1 .. Len(rooms[roomId].users) :
                      rooms[roomId].users[j].isHost}}) <= 1

\* C3: a joinRoom with isHost = true into a room whose host is a different
\* connection leaves the room's host unchanged.
C3_HostClaimRejected ==
  [][\A roomId \in DOMAIN rooms :
       ( /\ event'.name = "joinRoom"
         /\ event'.roomId = roomId
         /\ event'.isHost
         /\ HostOf(roomId) \notin {NoSocket, event'.id} )
       => ( /\ roomId \in DOMAIN rooms'
            /\ HostOf(roomId)' = HostOf(roomId) )]_vars

\* C4: a videoStateChange from a connection that is not the room's host
\* leaves the stored snapshot as it was.
C4_NonHostKeepsSnapshot ==
  [][\A roomId \in DOMAIN rooms :
       ( /\ event'.name = "videoStateChange"
         /\ event'.roomId = roomId
         /\ event'.id # HostOf(roomId) )
       => Snapshot(roomId)' = Snapshot(roomId)]_vars

\* C5: a videoStateChange from a non-host for an existing room results in
\* exactly one outbound message: a videoStateUpdate to the sender that
\* carries the stored state.
C5_NonHostGetsCorrection ==
  ( /\ event.name = "videoStateChange"
    /\ event.roomId \in DOMAIN rooms
    /\ event.id # HostOf(event.roomId) )
  => ( /\ Len(emits) = 1
       /\ emits[1].to = event.id
       /\ emits[1].ev = "videoStateUpdate"
       /\ Snapshot(event.roomId) # <<>>
       /\ emits[1].isPlaying = Snapshot(event.roomId)[1].isPlaying
       /\ emits[1].currentTime = Snapshot(event.roomId)[1].currentTime )

\* C6: a videoStateChange from the host with the stored isPlaying and a
\* currentTime within 0.5 s of the stored one sends no videoStateUpdate and
\* does not replace the stored snapshot.
C6_MinorUpdateSuppressed ==
  [][\A roomId \in DOMAIN rooms :
       ( /\ event'.name = "videoStateChange"
         /\ event'.roomId = roomId
         /\ event'.id = HostOf(roomId)
         /\ Snapshot(roomId) # <<>>
         /\ Snapshot(roomId)[1].isPlaying = event'.isPlaying
         /\ Abs(Snapshot(roomId)[1].currentTime - event'.currentTime) <= 5 )
       => ( /\ Snapshot(roomId)' = Snapshot(roomId)
            /\ \A i \in 1 .. Len(emits') : emits'[i].ev # "videoStateUpdate" )]_vars

\* the update of the last step is one the server accepts: always in the
\* reconnection-tolerant server, a significant one in the host-enforcing server
Accepted(roomId) ==
  \/ variant = "health"
  \/ IsSignificantChange(rooms[roomId].videoState, event'.isPlaying, event'.currentTime)

\* C7: an accepted videoStateChange from the host is delivered as
\* videoStateUpdate, with the state that was sent, to every other participant
\* of the room that is not chat-only and whose connection is open, and no
\* videoStateUpdate goes back to the host.
C7_HostUpdateReachesViewers ==
  [][\A roomId \in DOMAIN rooms :
       ( /\ event'.name = "videoStateChange"
         /\ event'.roomId = roomId
         /\ event'.id = HostOf(roomId)
         /\ Accepted(roomId) )
       => ( /\ \A i \in 1 .. Len(rooms[roomId].users) :
                 LET user == rooms[roomId].users[i]
                 IN (user.id # event'.id /\ ~IsChatOnly(user) /\ user.id \in sockets)
                    => \E j \in 1 .. Len(emits') :
                         /\ emits'[j].to = user.id
                         /\ emits'[j].ev = "videoStateUpdate"
                         /\ emits'[j].isPlaying = event'.isPlaying
                         /\ emits'[j].currentTime = event'.currentTime
            /\ \A j \in 1 .. Len(emits') :
                 ~(emits'[j].to = event'.id /\ emits'[j].ev = "videoStateUpdate") )]_vars

\* the host has just sent an update that reached another participant
C7_Witness ==
  /\ event.name = "videoStateChange"
  /\ event.roomId \in DOMAIN rooms
  /\ event.id = HostOf(event.roomId)
  /\ \E j \in 1 .. Len(emits) :
       /\ emits[j].ev = "videoStateUpdate"
       /\ emits[j].to # event.id
       /\ FindIndex(rooms[event.roomId].users, emits[j].to) # 0
       /\ emits[j].isPlaying = event.isPlaying
       /\ emits[j].currentTime = event.currentTime

\* C8: when the grace period of a connection expires whose participant has
\* reconnected inside it in the same role, the deferred removal removes
\* nothing from the room's list, no record of the participant is left marked
\* inactive, and the participant's record has the role it had.
C8_ReconnectedStaysMember ==
  [][\A r \in reconnected :
       ( /\ event'.name = "timeout"
         /\ event'.id = r[1]
         /\ r[3] = r[4] )
       => ( /\ event'.roomId \in DOMAIN rooms'
            /\ LET before == rooms[event'.roomId].users
                   after == rooms'[event'.roomId].users
               IN /\ Len(after) = Len(before)
                  /\ \A i \in 1 .. Len(after) :
                       after[i].id \in {r[1], r[2]} => after[i].active
                  /\ FindIndex(after, r[2]) # 0
                  /\ after[FindIndex(after, r[2])].isHost = r[3] )]_vars

\* C9: when the grace period of a disconnected participant expires, the
\* participant is in no list of a room that held it, and every participant
\* remaining there on an open connection has received userLeft for it exactly
\* once.
C9_RemovedAndAnnouncedOnce ==
  [][event'.name = "timeout"
     => \A roomId \in DOMAIN rooms :
          ( /\ FindIndex(rooms[roomId].users, event'.id) # 0
            /\ roomId \in DOMAIN rooms' )
          => ( /\ FindIndex(rooms'[roomId].users, event'.id) = 0
               /\ \A i \in 1 .. Len(rooms'[roomId].users) :
                    rooms'[roomId].users[i].id \in sockets
                    => userLeftSeen'[<<rooms'[roomId].users[i].id, event'.id>>] = 1 )]_vars

\* a host that reconnected as host inside its grace period, and that host's
\* new connection
HostReconnections == {r \in reconnected : r[3] /\ r[4]}

\* C10: after a host has reconnected as host inside its grace period, nobody
\* else receives a userLeft for its previous connection (also when the
\* original timer fires), and while the new connection is open the timers, the
\* sweep and the passage of time leave it the host.
C10_HostReconnectIsSilent ==
  /\ [](\A r \in HostReconnections :
          \A v \in Sockets \ {r[1], r[2]} : userLeftSeen[<<v, r[1]>>] = 0)
  /\ [][\A r \in HostReconnections, roomId \in DOMAIN rooms :
          ( /\ event'.name \in {"timeout", "sweep", "advance"}
            /\ r[2] \in sockets
            /\ rooms[roomId].host = r[2] )
          => ( /\ roomId \in DOMAIN rooms'
               /\ rooms'[roomId].host = r[2] )]_vars

\* C11: joinRoom never unicasts the cached snapshot (fallback-sync-state) to
\* the joiner when more than two minutes have elapsed since the snapshot was
\* stored, whichever handler stored it.
C11_StaleSnapshotWithheld ==
  \A i \in 1 .. Len(emits) :
    (event.name = "joinRoom" /\ emits[i].ev = "fallback-sync-state")
      => now - snapshotAt[event.roomId] <= SyncFreshness

\* C12: whenever a removal (the grace-period callback or the sweep's drop of
\* a participant inactive for more than five minutes) leaves a room's list
\* empty, the room is deleted in that same step: no state holds a room with
\* zero participants.
C12_NoEmptyRoom ==
  /\ \A roomId \in DOMAIN rooms : Len(rooms[roomId].users) > 0
  /\ event.name = "sweep" => event.emptied \cap DOMAIN rooms = {}
  /\ event.name = "timeout" /\ event.roomId \in DOMAIN rooms
       => Len(rooms[event.roomId].users) > 0

\* the sweep has dropped the last participant of a room and deleted the room
C12_Witness ==
  /\ event.name = "sweep"
  /\ event.emptied # {}
  /\ now > InactiveRetention
  /\ event.emptied \cap DOMAIN rooms = {}

C14_JoinNotices ==
  event.name = "joinRoom" =>
    LET room == rooms[event.roomId]
        got(s, ev) == {i \in 1 .. Len(emits) : emits[i].to = s /\ emits[i].ev = ev}
    IN /\ \A s \in InGroup(groups, sockets, event.roomId) :
            /\ Cardinality(got(s, "userJoined")) = 1
            /\ \A i \in got(s, "userJoined") :
                 emits[i].users = room.users /\ emits[i].user = event.id
       /\ event.id \in InGroup(groups, sockets, event.roomId)
       /\ Cardinality(got(event.id, "streaming-status")) = 1
       /\ \A i \in got(event.id, "streaming-status") :
            /\ emits[i].isStreaming = room.streaming
            /\ emits[i].fileName = room.fileName
            /\ emits[i].fileType = room.fileType

\* a second connection has joined a room that is streaming
C14_Witness ==
  /\ event.name = "joinRoom"
  /\ Len(rooms[event.roomId].users) = 2
  /\ Cardinality(InGroup(groups, sockets, event.roomId)) = 2
  /\ rooms[event.roomId].streaming
  /\ \E i \in 1 .. Len(emits) :
       /\ emits[i].to = event.id
       /\ emits[i].ev = "streaming-status"
       /\ emits[i].isStreaming

\* C15: a participant that joined as chat-only never receives
\* videoStateUpdate, videoSeekOperation, a relayed fallback-sync-state or
\* streamingAboutToStart, also after the sweep has deleted the room's record
\* while its connections are still in the transport group.
C15_ChatOnlyGetsNoPlayback ==
  \A i \in 1 .. Len(emits) :
    (\E roomId \in RoomIds : <<emits[i].to, roomId>> \in chatOnlyIn) =>
      /\ emits[i].ev \notin {"videoStateUpdate", "videoSeekOperation",
                             "streamingAboutToStart"}
      /\ ~(emits[i].ev = "fallback-sync-state" /\ event.name = "fallback-sync-state")

\* C16: when the participant removed at grace expiry is the room's host and
\* other participants remain, then after the removal the room has no host and
\* is not streaming, every remaining participant that is not chat-only (and
\* whose connection is open) has received streaming-status with
\* isStreaming = false, and no chat-only participant has received it.
C16_HostRemovalStopsStreaming ==
  [][(/\ event'.name = "timeout"
      /\ event'.roomId \in DOMAIN rooms
      /\ event'.roomId \in DOMAIN rooms'
      /\ FindIndex(rooms[event'.roomId].users, event'.id) # 0
      /\ FindIndex(rooms'[event'.roomId].users, event'.id) = 0
      /\ rooms[event'.roomId].host = event'.id)
     => LET room == rooms'[event'.roomId]
            stopped(s) == \E i \in 1 .. Len(emits') :
                            /\ emits'[i].to = s
                            /\ emits'[i].ev = "streaming-status"
                            /\ ~emits'[i].isStreaming
        IN /\ room.host = NoSocket
           /\ ~room.streaming
           /\ \A i \in 1 .. Len(room.users) :
                IF room.users[i].isChatOnly
                THEN \A k \in 1 .. Len(emits') :
                       ~(emits'[k].to = room.users[i].id
                         /\ emits'[k].ev = "streaming-status")
                ELSE room.users[i].id \in sockets => stopped(room.users[i].id)]_vars

\* C17: when the connection of a room participant closes, in that same step
\* the participant stays in the room's list, marked active = false with
\* disconnectedAt set, and the room receives userDisconnected; userLeft for a
\* participant is emitted only by the callback that runs once the 30 s grace
\* period that began with that disconnect has elapsed.
C17_DisconnectThenGrace ==
  [][/\ event'.name = "disconnect" =>
          \A roomId \in DOMAIN rooms :
            LET idx == FindIndex(rooms[roomId].users, event'.id)
            IN idx # 0 =>
                 /\ roomId \in DOMAIN rooms'
                 /\ Len(rooms'[roomId].users) = Len(rooms[roomId].users)
                 /\ rooms'[roomId].users[idx].id = event'.id
                 /\ ~rooms'[roomId].users[idx].active
                 /\ rooms'[roomId].users[idx].disconnectedAt = now
                 /\ \A s \in InGroup(groups', sockets', roomId) :
                      \E i \in 1 .. Len(emits') :
                        /\ emits'[i].to = s
                        /\ emits'[i].ev = "userDisconnected"
                        /\ emits'[i].userId = event'.id
     /\ \A i \in 1 .. Len(emits') :
          emits'[i].ev = "userLeft" =>
            /\ event'.name = "timeout"
            /\ emits'[i].userId = event'.id
            /\ LET users == rooms[event'.roomId].users
                   idx == FindIndex(users, event'.id)
               IN /\ idx # 0
                  /\ ~users[idx].active
                  /\ now - users[idx].disconnectedAt >= GracePeriod]_vars

\* C18: a room's list never holds two records with the same connection id; a
\* joinRoom from a connection that is already listed replaces its record in
\* place and leaves the length of the list unchanged.
C18_NoDuplicateParticipant ==
  \A roomId \in DOMAIN rooms :
    \A i, j \in 1 .. Len(rooms[roomId].users) :
      rooms[roomId].users[i].id = rooms[roomId].users[j].id => i = j

\* C19: a connection id is in the list of at most one room, also after the
\* same connection has sent joinRoom for two different room ids.
C19_OneRoomPerConnection ==
  \A id \in Sockets :
    Cardinality({roomId \in DOMAIN rooms : FindIndex(rooms[roomId].users, id) # 0}) <= 1

\* C20: the sweep marks a participant that is still active as inactive, and
\* emits userConnectionLost (and hostConnectionLost, to participants that are
\* not chat-only, when it is a host), only if its last heartbeat is more than
\* 30 s old or it has no health record, and its connection is closed.
C20_LostOnlyIfSilentAndClosed ==
  [][event'.name = "sweep" =>
       LET silent(id) ==
             \/ id \notin DOMAIN connectionHealth
             \/ now - connectionHealth[id].lastHeartbeat > HeartbeatTimeout
           lost(id) == silent(id) /\ id \notin sockets
       IN /\ \A roomId \in DOMAIN rooms \cap DOMAIN rooms' :
               \A i \in 1 .. Len(rooms[roomId].users) :
                 LET user == rooms[roomId].users[i]
                     k == FindIndex(rooms'[roomId].users, user.id)
                 IN (user.active /\ k # 0 /\ ~rooms'[roomId].users[k].active)
                      => lost(user.id)
          /\ \A i \in 1 .. Len(emits') :
               /\ emits'[i].ev = "userConnectionLost" => lost(emits'[i].userId)
               /\ emits'[i].ev = "hostConnectionLost" =>
                    \E roomId \in DOMAIN rooms :
                      LET users == rooms[roomId].users
                          k == FindIndex(users, emits'[i].to)
                      IN /\ k # 0
                         /\ ~users[k].isChatOnly
                         /\ \E h \in 1 .. Len(users) :
                              users[h].isHost /\ users[h].active /\ lost(users[h].id)]_vars

\* the sweep has marked a host whose connection is closed, and the room has
\* been told
C20_Witness ==
  /\ event.name = "sweep"
  /\ \E i \in 1 .. Len(emits) : emits[i].ev = "userConnectionLost"
  /\ \E i \in 1 .. Len(emits) : emits[i].ev = "hostConnectionLost"
  /\ \E roomId \in DOMAIN rooms :
       \E k \in 1 .. Len(rooms[roomId].users) :
         /\ rooms[roomId].users[k].isHost
         /\ ~rooms[roomId].users[k].active
         /\ rooms[roomId].users[k].disconnectedAt = now
         /\ rooms[roomId].users[k].id \notin sockets

\* C21: every participant whose connection has closed is eventually removed
\* from the list of every room that holds it, by the grace-period callback or
\* by the sweep, as long as the timers keep firing, also while other
\* participants of the room keep sending heartbeats.
C21_ClosedEventuallyRemoved ==
  \A id \in Sockets : (Closed(id) /\ Listed(id)) ~> ~Listed(id)


\* C22: the ConnectionHealth record created when a connection opens is
\* eventually deleted after that connection closes, for every connection,
\* also one that never joined a room.
C22_HealthEventuallyDeleted ==
  \A id \in Sockets : Closed(id) ~> (id \notin DOMAIN connectionHealth)


\* C23: the sweep is idempotent: run a second time at once (same clock
\* reading, nothing handled in between) it changes no room, no participant
\* record and no ConnectionHealth record, and emits no notification.
C23_SweepIdempotent ==
  event.name = "sweep" =>
    /\ SweepRooms(now) = rooms
    /\ PurgeHealth(now) = connectionHealth
    /\ SweepNotices(now) = <<>>

\* a sweep has just marked a participant whose record stays in the list, and
\* has told a connection that is still open
C23_Witness ==
  /\ event.name = "sweep"
  /\ emits # <<>>
  /\ \E i \in 1 .. Len(emits) : emits[i].to \in sockets
  /\ \E roomId \in DOMAIN rooms :
       \E k \in 1 .. Len(rooms[roomId].users) :
         /\ ~rooms[roomId].users[k].active
         /\ rooms[roomId].users[k].disconnectedAt = now
         /\ ~SkipRecent(rooms[roomId], now)


\* C24: a fallback-sync-state naming a target is delivered to that target
\* only, and only if the target is a non-chat-only participant of the named
\* room; one without a target is delivered to every non-chat-only participant
\* of the room except the sender; the sender never receives its own snapshot.
C24_FallbackDelivery ==
  event.name = "fallback-sync-state" =>
    LET recipients == {emits[i].to : i \in 1 .. Len(emits)}
        regular == {id \in Sockets :
                      /\ event.roomId \in DOMAIN rooms
                      /\ \E k \in 1 .. Len(rooms[event.roomId].users) :
                           /\ rooms[event.roomId].users[k].id = id
                           /\ ~rooms[event.roomId].users[k].isChatOnly}
    IN /\ event.id \notin recipients
       /\ IF event.targetSocketId # NoSocket
          THEN recipients = {event.targetSocketId} \cap regular \cap sockets
          ELSE recipients = (regular \cap sockets) \ {event.id}


\* C25: after a peer-id registration by connection c with peer id p, the peer
\* mapping holds c -> p whatever the previous connection id is (absent,
\* unknown, another connection's, c's own), and holds no entry for the
\* previous connection id when that is a different connection.
C25_RegistrationStored ==
  event.name = "peer-id" =>
    /\ PeerOf(peerIdMap, event.id) = event.peerId
    /\ event.previousSocketId \notin {NoSocket, event.id} =>
         PeerOf(peerIdMap, event.previousSocketId) = NoPeer


\* C26: the peer mapping is one-to-one in every reachable state (no two
\* connection ids are mapped to the same peer id), and resolving a peer id
\* never yields a connection that has closed and is in no room's list.
C26_PeerMapOneToOne ==
  /\ \A i, j \in 1 .. Len(peerIdMap) :
       i # j => peerIdMap[i].value # peerIdMap[j].value
  /\ \A peerId \in SignalPeers :
       LET resolved == KeyOfPeer(peerIdMap, peerId)
       IN resolved # NoSocket => ~(Closed(resolved) /\ ~Listed(resolved))


\* C27: every webrtc-connection-failed report produces exactly one outbound
\* notification: webrtc-reconnect-requested to the resolved target if the
\* peer id resolves to a non-chat-only participant of the room, otherwise
\* webrtc-target-unreachable to the reporting connection; no report is
\* dropped without a notification.
C27_FailureReportAnswered ==
  event.name = "webrtc-connection-failed" =>
    LET target == KeyOfPeer(peerIdMap, event.peerId)
        regular == /\ target # NoSocket
                   /\ event.roomId \in DOMAIN rooms
                   /\ \E k \in 1 .. Len(rooms[event.roomId].users) :
                        /\ rooms[event.roomId].users[k].id = target
                        /\ ~rooms[event.roomId].users[k].isChatOnly
    IN /\ Len(emits) = 1
       /\ IF regular
          THEN emits[1].ev = "webrtc-reconnect-requested" /\ emits[1].to = target
          ELSE emits[1].ev = "webrtc-target-unreachable" /\ emits[1].to = event.id


\* C28: every request-reconnection produces exactly one outbound message:
\* viewer-reconnection-request to the connection named by the room's host id
\* if the room exists and has a host, otherwise (room missing or host none)
\* reconnection-failed to the requesting connection. The message to the host
\* is delivered when the host's connection is open; addressed to a connection
\* that has closed it is delivered to nobody, and nothing else is sent.
C28_ReconnectionRequestAnswered ==
  event.name = "request-reconnection" =>
    IF event.roomId \in DOMAIN rooms /\ rooms[event.roomId].host # NoSocket
    THEN /\ Len(emits) = (IF rooms[event.roomId].host \in sockets THEN 1 ELSE 0)
         /\ \A i \in 1 .. Len(emits) :
              /\ emits[i].ev = "viewer-reconnection-request"
              /\ emits[i].to = rooms[event.roomId].host
              /\ emits[i].viewerSocketId = event.id
    ELSE /\ Len(emits) = 1
         /\ emits[1].ev = "reconnection-failed"
         /\ emits[1].to = event.id

\* a viewer's request has been forwarded to the open host of its room
C28_Witness ==
  /\ event.name = "request-reconnection"
  /\ event.roomId \in DOMAIN rooms
  /\ rooms[event.roomId].host \in sockets \ {event.id}
  /\ FindIndex(rooms[event.roomId].users, event.id) # 0
  /\ Len(emits) = 1
  /\ emits[1].ev = "viewer-reconnection-request"
  /\ emits[1].to = rooms[event.roomId].host


\* C29: the heartbeat-ack for room R reports viewerCount = the number of
\* non-host non-chat-only participants of R, chatOnlyCount = the number of
\* chat-only participants of R, and hostConnected true exactly when R has a
\* host participant whose connection is connected, whoever sends the
\* heartbeat; all three are 0/false when R does not exist.
C29_AckReportsOccupancy ==
  event.name = "heartbeat" =>
    \A i \in 1 .. Len(emits) :
      emits[i].ev = "heartbeat-ack" =>
        IF event.roomId \in DOMAIN rooms
        THEN LET users == rooms[event.roomId].users
             IN /\ emits[i].viewerCount =
                     Cardinality({k \in 1 .. Len(users) :
                                    ~users[k].isHost /\ ~users[k].isChatOnly})
                /\ emits[i].chatOnlyCount =
                     Cardinality({k \in 1 .. Len(users) : users[k].isChatOnly})
                /\ emits[i].hostConnected =
                     (\E k \in 1 .. Len(users) :
                        users[k].isHost /\ users[k].id \in sockets)
        ELSE /\ emits[i].viewerCount = 0
             /\ emits[i].chatOnlyCount = 0
             /\ emits[i].hostConnected = FALSE


\* C30: every snapshot stored in a room's syncState by videoStateChange or
\* videoSeekOperation has as producer the room's host id at the time it is
\* stored; a videoSeekOperation from a connection other than the room's host
\* neither changes syncState nor is delivered to other participants.
C30_OnlyHostSnapshots ==
  [][(event'.name \in {"videoStateChange", "videoSeekOperation"}
      /\ event'.roomId \in DOMAIN rooms) =>
       LET roomId == event'.roomId
       IN /\ rooms'[roomId].syncState # rooms[roomId].syncState =>
               rooms'[roomId].syncState[1].hostId = rooms[roomId].host
          /\ (event'.name = "videoSeekOperation"
              /\ event'.id # rooms[roomId].host) =>
               /\ rooms'[roomId].syncState = rooms[roomId].syncState
               /\ emits' = <<>>]_vars


\* the events that carry a room id without being a join
RoomEvents ==
  {"videoStateChange", "videoSeekOperation", "fallback-sync-state",
   "streaming-status-update", "streamingAboutToStart", "heartbeat",
   "request-reconnection", "webrtc-connection-failed"}

\* C31: a videoStateChange, videoSeekOperation, fallback-sync-state,
\* streaming-status-update, streamingAboutToStart, heartbeat,
\* request-reconnection or webrtc-connection-failed that names a room id not
\* in the registry creates no room and leaves the registry and every room
\* as they were; only joinRoom adds a room to the registry.
C31_MissingRoomFrame ==
  [][/\ (event'.name \in RoomEvents /\ event'.roomId \notin DOMAIN rooms) =>
          rooms' = rooms
     /\ DOMAIN rooms' \ DOMAIN rooms # {} => event'.name = "joinRoom"]_vars

\* a participant of an existing room has just sent an event naming a room
\* that is not in the registry, and has been answered
C31_Witness ==
  /\ event.name \in RoomEvents
  /\ event.roomId \notin DOMAIN rooms
  /\ \E roomId \in DOMAIN rooms : FindIndex(rooms[roomId].users, event.id) # 0
  /\ emits # <<>>


\* C32: once the streaming of a room has stopped, by a streaming-status-update
\* with streaming = false or by the removal of the departed host at grace
\* expiry, the room's cached syncState is none, so that a viewer joining
\* afterwards is sent no snapshot of the stopped stream.
C32_StopClearsSnapshot ==
  [][\A roomId \in DOMAIN rooms \cap DOMAIN rooms' :
       (\/ /\ event'.name = "streaming-status-update"
           /\ event'.roomId = roomId
           /\ ~event'.streaming
        \/ /\ event'.name = "timeout"
           /\ event'.roomId = roomId
           /\ rooms[roomId].host = event'.id
           /\ rooms'[roomId].host = NoSocket
           /\ ~rooms'[roomId].streaming)
       => rooms'[roomId].syncState = <<>>]_vars


\* C33: in every reachable state a room's host id is either none or the
\* connection id of a participant in that room's list (no dangling host
\* after the removal at grace expiry, after the sweep's drop, or for a
\* connection that joined several rooms).
C33_HostIsParticipant ==
  \A roomId \in DOMAIN rooms :
    \/ rooms[roomId].host = NoSocket
    \/ FindIndex(rooms[roomId].users, rooms[roomId].host) # 0


\* C34: the room's host id and the role flags of its participants agree in
\* every reachable state: a participant record has isHost = true if and only
\* if the room's host id is that participant's connection id.
C34_HostFlagAgrees ==
  \A roomId \in DOMAIN rooms :
    \A k \in 1 .. Len(rooms[roomId].users) :
      rooms[roomId].users[k].isHost <=>
        (IF variant = "health" THEN rooms[roomId].host
         ELSE rooms[roomId].hostId) = rooms[roomId].users[k].id


\* C35: two requests for a room id (create-room event or POST /create-room,
\* in any order) answered one after the other with no joinRoom in between
\* never return the same room id.
C35_HandedOutIdReserved ==
  [][(/\ event.name \in {"create-room", "POST /create-room"}
      /\ event'.name \in {"create-room", "POST /create-room"})
     => event'.roomId # event.roomId]_vars

====
